---- MODULE Spec2Model ----
(***************************************************************************)
(* The template engine of odf-kit: the placeholder healer (healer.ts) and  *)
(* the template replacer (replacer.ts).                                    *)
(*                                                                         *)
(* A string is a sequence of one-character strings.  Positions and         *)
(* indices are 0-based, as in the source; At and Slice do the conversion.  *)
(***************************************************************************)
EXTENDS Integers, Sequences, FiniteSets, TLC

VARIABLES
    xml,          \* the document part handed to healPlaceholders / replaceAll
    parts,        \* the parts the input was assembled from, as drawn
    data,         \* the TemplateData handed to replaceAll
    pc,           \* position of the run: "start", "healing", "healed", "rehealed", "rendered"
    orig,         \* healPlaceholders: the segments as tokenize returned them
    segments,     \* healPlaceholders: the segments array, rewritten in place
    charMap,      \* healPlaceholders: ribbon position -> (segIndex, charIndex)
    placeholders, \* healPlaceholders: the matches of PLACEHOLDER_RE in the ribbon
    i,            \* healPlaceholders: the loop index, counting down
    healed,       \* the string healPlaceholders returned
    heap,         \* the objects and arrays of the data and of the scopes built from it
    stack,        \* replaceAll: the calls in progress, the innermost last
    lastIndex,    \* the cursors of the module-level global patterns, between calls
    out           \* the string the last call returned

vars == <<xml, parts, data, pc, orig, segments, charMap, placeholders, i, healed, heap,
          stack, lastIndex, out>>

(***************************************************************************)
(* Bounds of the checked input sets.                                       *)
(***************************************************************************)
\* healer runs: the input is a concatenation of at most MaxPieces pieces
MaxPieces == 5

\* healer runs on markers that share segments: at most MaxShared pieces
MaxShared == 6

\* pipeline runs: the marker is split over at most MaxFragments segments
MaxFragments == 3

\* escaping runs: the substituted value has at most MaxValueLen characters
MaxValueLen == 2

\* lookup runs: the dotted path has at most MaxDepth components
MaxDepth == 3

\* section runs: a sequence value has at most MaxItems elements
MaxItems == 2

\* boundary runs: a marker lies in at most MaxNest elements
MaxNest == 2

\* malformed runs: at most MaxAround pieces before and after the open marker
MaxAround == 2

\* termination runs: the template is made of at most MaxTerm pieces
MaxTerm == 4

MaxClean == 5

MaxSafe == 4

MaxTokLen == 6

MaxEntries == 3

MaxBefore == 3

MaxMatch == 5

MaxStrategy == 6

MaxCalls == 3

MaxCallPieces == 3

MaxOrder == 5

MaxIndexKey == 2

(***************************************************************************)
(* JavaScript string primitives.                                           *)
(***************************************************************************)
At(s, k) == s[k + 1]

Slice(s, a, b) == SubSeq(s, a + 1, b)

SliceFrom(s, a) == SubSeq(s, a + 1, Len(s))

StartsWithAt(s, t, k) == k + Len(t) <= Len(s) /\ SubSeq(s, k + 1, k + Len(t)) = t

EndsWith(s, t) == Len(t) <= Len(s) /\ SubSeq(s, Len(s) - Len(t) + 1, Len(s)) = t

\* the least, and the greatest, position of a set of positions; -1 when there is none
First(K) == IF K = {} THEN -1 ELSE CHOOSE k \in K : \A j \in K : k <= j

Last(K) == IF K = {} THEN -1 ELSE CHOOSE k \in K : \A j \in K : k >= j

\* the least k >= from at which t occurs in s, or -1
IndexOf(s, t, from) ==
    IF \E k \in from..(Len(s) - Len(t)) : StartsWithAt(s, t, k)
    THEN CHOOSE k \in from..(Len(s) - Len(t)) :
            StartsWithAt(s, t, k) /\ \A j \in from..(k - 1) : ~StartsWithAt(s, t, j)
    ELSE -1

LastIndexOf(s, t, from) == Last({k \in 0..from : StartsWithAt(s, t, k)})

RECURSIVE Concat(_)
Concat(ss) == IF ss = <<>> THEN <<>> ELSE Head(ss) \o Concat(Tail(ss))

(***************************************************************************)
(* Character classes of the marker grammar.                                *)
(***************************************************************************)
Lower == {"a", "b", "c", "d", "e", "f", "g", "h", "i", "j", "k", "l", "m",
          "n", "o", "p", "q", "r", "s", "t", "u", "v", "w", "x", "y", "z"}

Upper == {"A", "B", "C", "D", "E", "F", "G", "H", "I", "J", "K", "L", "M",
          "N", "O", "P", "Q", "R", "S", "T", "U", "V", "W", "X", "Y", "Z"}

Digit == {"0", "1", "2", "3", "4", "5", "6", "7", "8", "9"}

IdStart == Lower \cup Upper \cup {"_"}

IdChar == IdStart \cup Digit \cup {"."}

\* the end (exclusive) of the run [a-zA-Z0-9_.]* that starts at k
RECURSIVE IdRunEnd(_, _)
IdRunEnd(s, k) ==
    IF k < Len(s) /\ At(s, k) \in IdChar THEN IdRunEnd(s, k + 1) ELSE k

\* [a-zA-Z_][a-zA-Z0-9_.]*\} anchored at k: the end (exclusive) of the match, or -1
IdentBraceEnd(s, k) ==
    IF k < Len(s) /\ At(s, k) \in IdStart
    THEN LET e == IdRunEnd(s, k + 1)
         IN  IF e < Len(s) /\ At(s, e) = "}" THEN e + 1 ELSE -1
    ELSE -1

\* PLACEHOLDER_RE anchored at k: the end (exclusive) of the match, or -1
PLACEHOLDER_RE(s, k) ==
    IF k < Len(s) /\ At(s, k) = "{"
    THEN IF k + 1 < Len(s) /\ At(s, k + 1) \in {"#", "/"}
         THEN IdentBraceEnd(s, k + 2)
         ELSE IdentBraceEnd(s, k + 1)
    ELSE -1

(***************************************************************************)
(* healer.ts                                                               *)
(***************************************************************************)
Tag(c) == [type |-> "tag", content |-> c]

Text(c) == [type |-> "text", content |-> c]

RECURSIVE tokenizeFrom(_, _, _)
tokenizeFrom(s, k, segs) ==
    IF k >= Len(s) THEN segs
    ELSE IF At(s, k) = "<"
    THEN LET end == IndexOf(s, <<">">>, k)
         IN  IF end = -1
             THEN Append(segs, Text(SliceFrom(s, k)))
             ELSE tokenizeFrom(s, end + 1, Append(segs, Tag(Slice(s, k, end + 1))))
    ELSE LET end == IndexOf(s, <<"<">>, k)
         IN  IF end = -1
             THEN Append(segs, Text(SliceFrom(s, k)))
             ELSE tokenizeFrom(s, end, Append(segs, Text(Slice(s, k, end))))

\* tokenize with the remainder behind an unterminated < left out
tokenizeDropsRemainder(s) ==
    LET segs == tokenizeFrom(s, 0, <<>>)
    IN  IF segs # <<>> /\ segs[Len(segs)].type = "text" /\ At(segs[Len(segs)].content, 0) = "<"
        THEN SubSeq(segs, 1, Len(segs) - 1)
        ELSE segs

tokenize(s) == tokenizeFrom(s, 0, <<>>)

\* segments.map((s) => s.content).join("")
RECURSIVE JoinContents(_)
JoinContents(segs) ==
    IF segs = <<>> THEN <<>> ELSE Head(segs).content \o JoinContents(Tail(segs))

RECURSIVE buildRibbonFrom(_, _, _)
buildRibbonFrom(segs, s, acc) ==
    IF s >= Len(segs) THEN acc
    ELSE IF At(segs, s).type = "text"
    THEN buildRibbonFrom(segs, s + 1,
           [ribbon  |-> acc.ribbon \o At(segs, s).content,
            charMap |-> acc.charMap \o
                        [c \in 1..Len(At(segs, s).content) |->
                            [segIndex |-> s, charIndex |-> c - 1]]])
    ELSE buildRibbonFrom(segs, s + 1, acc)

buildRibbon(segs) == buildRibbonFrom(segs, 0, [ribbon |-> <<>>, charMap |-> <<>>])

\* the loop of PLACEHOLDER_RE.exec, with lastIndex at from
RECURSIVE findPlaceholdersFrom(_, _, _)
findPlaceholdersFrom(ribbon, from, matches) ==
    LET k == First({j \in from..(Len(ribbon) - 1) : PLACEHOLDER_RE(ribbon, j) # -1})
        e == PLACEHOLDER_RE(ribbon, k)
    IN  IF k = -1 THEN matches
        ELSE findPlaceholdersFrom(ribbon, e,
               Append(matches, [start |-> k, end |-> e - 1, text |-> Slice(ribbon, k, e)]))

\* findPlaceholders with end one past the closing brace
findPlaceholdersOpenEnd(ribbon) ==
    LET matches == findPlaceholdersFrom(ribbon, 0, <<>>)
    IN  [m \in 1..Len(matches) |-> [matches[m] EXCEPT !.end = @ + 1]]

findPlaceholders(ribbon) == findPlaceholdersFrom(ribbon, 0, <<>>)

SpanOpenPrefix == <<"<", "t", "e", "x", "t", ":", "s", "p", "a", "n">>

SpanClose == <<"<", "/", "t", "e", "x", "t", ":", "s", "p", "a", "n", ">">>

\* /<text:span[^>]*><\/text:span>/ anchored at k: the end (exclusive), or -1
EmptySpanEnd(s, k) ==
    IF StartsWithAt(s, SpanOpenPrefix, k)
    THEN LET gt == IndexOf(s, <<">">>, k + Len(SpanOpenPrefix))
         IN  IF gt # -1 /\ StartsWithAt(s, SpanClose, gt + 1)
             THEN gt + 1 + Len(SpanClose)
             ELSE -1
    ELSE -1

\* the global replace: leftmost match from position from, then on from its end
RECURSIVE removeEmptySpansFrom(_, _, _)
removeEmptySpansFrom(s, from, acc) ==
    LET k == First({j \in from..(Len(s) - 1) : EmptySpanEnd(s, j) # -1})
    IN  IF k = -1 THEN acc \o SliceFrom(s, from)
        ELSE removeEmptySpansFrom(s, EmptySpanEnd(s, k), acc \o Slice(s, from, k))

removeEmptySpans(s) == removeEmptySpansFrom(s, 0, <<>>)

\* HealOne with every tag between the first and the last segment cleared
HealOneClearsTags(segs, cm, ph) ==
    LET firstSegIdx  == At(cm, ph.start).segIndex
        lastSegIdx   == At(cm, ph.end).segIndex
        firstCharIdx == At(cm, ph.start).charIndex
        lastCharIdx  == At(cm, ph.end).charIndex
        before       == Slice(At(segs, firstSegIdx).content, 0, firstCharIdx)
        after        == SliceFrom(At(segs, lastSegIdx).content, lastCharIdx + 1)
    IN  IF firstSegIdx = lastSegIdx THEN segs
        ELSE [s \in 1..Len(segs) |->
                IF s - 1 = firstSegIdx THEN Text(before \o ph.text)
                ELSE IF s - 1 = lastSegIdx THEN Text(after)
                ELSE IF firstSegIdx < s - 1 /\ s - 1 < lastSegIdx
                THEN [type |-> segs[s].type, content |-> <<>>]
                ELSE segs[s]]

\* HealOne with the last segment cut after the first character behind the brace
HealOneCutsLate(segs, cm, ph) ==
    LET firstSegIdx  == At(cm, ph.start).segIndex
        lastSegIdx   == At(cm, ph.end).segIndex
        firstCharIdx == At(cm, ph.start).charIndex
        lastCharIdx  == At(cm, ph.end).charIndex
        before       == Slice(At(segs, firstSegIdx).content, 0, firstCharIdx)
        after        == SliceFrom(At(segs, lastSegIdx).content, lastCharIdx + 2)
    IN  IF firstSegIdx = lastSegIdx THEN segs
        ELSE [s \in 1..Len(segs) |->
                IF s - 1 = firstSegIdx THEN Text(before \o ph.text)
                ELSE IF s - 1 = lastSegIdx THEN Text(after)
                ELSE IF firstSegIdx < s - 1 /\ s - 1 < lastSegIdx
                THEN IF segs[s].type = "text" THEN Text(<<>>)
                     ELSE IF EndsWith(segs[s].content, <<"/", ">">>) THEN Tag(<<>>)
                     ELSE segs[s]
                ELSE segs[s]]

\* one pass of the body of the for loop over the placeholders
HealOne(segs, cm, ph) ==
    LET firstSegIdx  == At(cm, ph.start).segIndex
        lastSegIdx   == At(cm, ph.end).segIndex
        firstCharIdx == At(cm, ph.start).charIndex
        lastCharIdx  == At(cm, ph.end).charIndex
        before       == Slice(At(segs, firstSegIdx).content, 0, firstCharIdx)
        after        == SliceFrom(At(segs, lastSegIdx).content, lastCharIdx + 1)
    IN  IF firstSegIdx = lastSegIdx THEN segs
        ELSE [s \in 1..Len(segs) |->
                IF s - 1 = firstSegIdx THEN Text(before \o ph.text)
                ELSE IF s - 1 = lastSegIdx THEN Text(after)
                ELSE IF firstSegIdx < s - 1 /\ s - 1 < lastSegIdx
                THEN IF segs[s].type = "text" THEN Text(<<>>)
                     ELSE IF EndsWith(segs[s].content, <<"/", ">">>) THEN Tag(<<>>)
                     ELSE segs[s]
                ELSE segs[s]]

RECURSIVE HealLoop(_, _, _, _)
HealLoop(segs, cm, phs, k) ==
    IF k < 0 THEN segs ELSE HealLoop(HealOne(segs, cm, At(phs, k)), cm, phs, k - 1)

\* the segments array when the loop of healPlaceholders has ended
HealedSegments(s) ==
    LET segs == tokenize(s)
        rb   == buildRibbon(segs)
        phs  == findPlaceholders(rb.ribbon)
    IN  HealLoop(segs, rb.charMap, phs, Len(phs) - 1)

healPlaceholders(s) ==
    LET segs == tokenize(s)
        rb   == buildRibbon(segs)
        phs  == findPlaceholders(rb.ribbon)
    IN  IF Len(phs) = 0 THEN s
        ELSE removeEmptySpans(JoinContents(HealLoop(segs, rb.charMap, phs, Len(phs) - 1)))

\* the loop `while ((match = PLACEHOLDER_RE.exec(ribbon)) !== null)` entered with
\* the cursor at from: the matches, and the cursor the failed exec leaves
ExecLoop(ribbon, from) ==
    [matches |-> findPlaceholdersFrom(ribbon, from, <<>>), lastIndex |-> 0]

\* findPlaceholders that starts at the cursor it finds and leaves it behind its last match
findPlaceholdersKeepsCursor(ribbon, cursor) ==
    LET ms == findPlaceholdersFrom(ribbon, cursor, <<>>)
    IN  [matches |-> ms,
         lastIndex |-> IF Len(ms) = 0 THEN cursor ELSE ms[Len(ms)].end + 1]

\* findPlaceholders as a step on the cursor of PLACEHOLDER_RE: the cursor is
\* set to 0, whatever it was, and the loop runs to its failed exec
findPlaceholdersAt(ribbon, cursor) == ExecLoop(ribbon, 0)

\* healPlaceholders as a step on the cursor of PLACEHOLDER_RE
healPlaceholdersAt(s, cursor) ==
    LET segs == tokenize(s)
        rb   == buildRibbon(segs)
        scan == findPlaceholdersAt(rb.ribbon, cursor)
        phs  == scan.matches
    IN  [result |-> IF Len(phs) = 0 THEN s
                    ELSE removeEmptySpans(JoinContents(HealLoop(segs, rb.charMap, phs, Len(phs) - 1))),
         lastIndex |-> scan.lastIndex]

Ribbon(s) == buildRibbon(tokenize(s)).ribbon

(***************************************************************************)
(* replacer.ts.  TemplateData and the values in it: a value is a record    *)
(* [kind, val]; a mapping is a function from keys (strings) to values.     *)
(***************************************************************************)
Str(s) == [kind |-> "string", val |-> s]

Num(n) == [kind |-> "number", val |-> n]

Bool(b) == [kind |-> "boolean", val |-> b]

Null == [kind |-> "null", val |-> 0]

Undefined == [kind |-> "undefined", val |-> 0]

Obj(f) == [kind |-> "object", val |-> f]

Arr(a) == [kind |-> "array", val |-> a]

\* String(n) for an integer n
RECURSIVE Digits(_)
Digits(n) ==
    LET d == <<"0", "1", "2", "3", "4", "5", "6", "7", "8", "9">>[(n % 10) + 1]
    IN  IF n < 10 THEN <<d>> ELSE Append(Digits(n \div 10), d)

NumberToString(n) == IF n < 0 THEN <<"-">> \o Digits(-n) ELSE Digits(n)

\* String(value)
RECURSIVE StringOf(_)
RECURSIVE JoinItems(_)
JoinItems(a) ==
    IF a = <<>> THEN <<>>
    ELSE (IF Head(a).kind \in {"null", "undefined"} THEN <<>> ELSE StringOf(Head(a)))
         \o (IF Len(a) > 1 THEN <<",">> \o JoinItems(Tail(a)) ELSE <<>>)

StringOf(v) ==
    CASE v.kind = "string"    -> v.val
      [] v.kind = "number"    -> NumberToString(v.val)
      [] v.kind = "boolean"   -> IF v.val THEN <<"t", "r", "u", "e">>
                                 ELSE <<"f", "a", "l", "s", "e">>
      [] v.kind = "null"      -> <<"n", "u", "l", "l">>
      [] v.kind = "undefined" -> <<"u", "n", "d", "e", "f", "i", "n", "e", "d">>
      [] v.kind = "object"    -> <<"[", "o", "b", "j", "e", "c", "t", " ",
                                   "O", "b", "j", "e", "c", "t", "]">>
      [] v.kind = "array"     -> JoinItems(v.val)

\* value.replace(/c/g, rep) for a one-character pattern c
RECURSIVE ReplaceChar(_, _, _)
ReplaceChar(s, c, rep) ==
    IF s = <<>> THEN <<>>
    ELSE (IF Head(s) = c THEN rep ELSE <<Head(s)>>) \o ReplaceChar(Tail(s), c, rep)

xmlEscape(value) ==
    LET s1 == ReplaceChar(value, "&", <<"&", "a", "m", "p", ";">>)
        s2 == ReplaceChar(s1, "<", <<"&", "l", "t", ";">>)
        s3 == ReplaceChar(s2, ">", <<"&", "g", "t", ";">>)
        s4 == ReplaceChar(s3, "\"", <<"&", "q", "u", "o", "t", ";">>)
    IN  ReplaceChar(s4, "'", <<"&", "a", "p", "o", "s", ";">>)

\* path.split(".")
RECURSIVE Split(_, _)
Split(path, cur) ==
    IF path = <<>> THEN <<cur>>
    ELSE IF Head(path) = "." THEN <<cur>> \o Split(Tail(path), <<>>)
    ELSE Split(Tail(path), Append(cur, Head(path)))

\* the own enumerable keys of an array: "0", "1", ...
IndexKeys(a) == { NumberToString(n) : n \in 0..(Len(a) - 1) }

\* current[part] for an object or an array
Property(current, part) ==
    IF current.kind = "object"
    THEN IF part \in DOMAIN current.val THEN current.val[part] ELSE Undefined
    ELSE IF part = <<"l", "e", "n", "g", "t", "h">> THEN Num(Len(current.val))
    ELSE IF part \in IndexKeys(current.val)
    THEN current.val[(CHOOSE n \in 0..(Len(current.val) - 1) : NumberToString(n) = part) + 1]
    ELSE Undefined

\* resolveParts handing back the value it stopped at
RECURSIVE resolvePartsKeepsValue(_, _)
resolvePartsKeepsValue(current, ps) ==
    IF ps = <<>> THEN current
    ELSE IF current.kind \notin {"object", "array"} THEN current
    ELSE resolvePartsKeepsValue(Property(current, Head(ps)), Tail(ps))

RECURSIVE resolveParts(_, _)
resolveParts(current, ps) ==
    IF ps = <<>> THEN current
    ELSE IF current.kind \notin {"object", "array"} THEN Undefined
    ELSE resolveParts(Property(current, Head(ps)), Tail(ps))

resolveValue(d, path) == resolveParts(Obj(d), Split(path, <<>>))

RECURSIVE findMatchingCloseFrom(_, _, _, _)
findMatchingCloseFrom(s, tag, depth, pos) ==
    LET openTag   == <<"{", "#">> \o tag \o <<"}">>
        closeTag  == <<"{", "/">> \o tag \o <<"}">>
        nextOpen  == IndexOf(s, openTag, pos)
        nextClose == IndexOf(s, closeTag, pos)
    IN  IF ~(depth > 0 /\ pos < Len(s)) THEN -1
        ELSE IF nextClose = -1 THEN -1
        ELSE IF nextOpen # -1 /\ nextOpen < nextClose
        THEN findMatchingCloseFrom(s, tag, depth + 1, nextOpen + Len(openTag))
        ELSE IF depth - 1 = 0 THEN nextClose
        ELSE findMatchingCloseFrom(s, tag, depth - 1, nextClose + Len(closeTag))

\* findMatchingClose without the depth: the next close marker
findMatchingCloseNext(s, tag, searchFrom) ==
    IndexOf(s, <<"{", "/">> \o tag \o <<"}">>, searchFrom)

findMatchingClose(s, tag, searchFrom) == findMatchingCloseFrom(s, tag, 1, searchFrom)

Whitespace == {" ", "\n", "\r", "\t"}

RECURSIVE SkipBack(_, _)
SkipBack(s, k) == IF k >= 0 /\ At(s, k) \in Whitespace THEN SkipBack(s, k - 1) ELSE k

RECURSIVE SkipForward(_, _)
SkipForward(s, k) ==
    IF k < Len(s) /\ At(s, k) \in Whitespace THEN SkipForward(s, k + 1) ELSE k

\* the end (exclusive) of the run [^\s>/]* that starts at k
RECURSIVE NameRunEnd(_, _)
NameRunEnd(s, k) ==
    IF k < Len(s) /\ At(s, k) \notin (Whitespace \cup {">", "/"})
    THEN NameRunEnd(s, k + 1) ELSE k

\* expandBoundary stopping at the first enclosing element
expandBoundaryOnce(s, start, end) ==
    LET backProbe     == SkipBack(s, start - 1)
        openTagStart  == LastIndexOf(s, <<"<">>, backProbe)
        openTagStr    == Slice(s, openTagStart, backProbe + 1)
        nameEnd       == NameRunEnd(openTagStr, 1)
        fwdProbe      == SkipForward(s, end)
        closeTagEnd   == IndexOf(s, <<">">>, fwdProbe)
    IN  IF backProbe < 0 \/ At(s, backProbe) # ">" THEN [start |-> start, end |-> end]
        ELSE IF openTagStart = -1 THEN [start |-> start, end |-> end]
        ELSE IF StartsWithAt(openTagStr, <<"<", "/">>, 0) \/ EndsWith(openTagStr, <<"/", ">">>)
        THEN [start |-> start, end |-> end]
        ELSE IF nameEnd = 1 THEN [start |-> start, end |-> end]
        ELSE IF fwdProbe >= Len(s) \/ At(s, fwdProbe) # "<" THEN [start |-> start, end |-> end]
        ELSE IF closeTagEnd = -1 THEN [start |-> start, end |-> end]
        ELSE IF Slice(s, fwdProbe, closeTagEnd + 1)
                  # <<"<", "/">> \o Slice(openTagStr, 1, nameEnd) \o <<">">>
        THEN [start |-> start, end |-> end]
        ELSE [start |-> openTagStart, end |-> closeTagEnd + 1]

RECURSIVE expandBoundary(_, _, _)
expandBoundary(s, start, end) ==
    LET backProbe     == SkipBack(s, start - 1)
        openTagEnd    == backProbe
        openTagStart  == LastIndexOf(s, <<"<">>, openTagEnd)
        openTagStr    == Slice(s, openTagStart, openTagEnd + 1)
        nameEnd       == NameRunEnd(openTagStr, 1)
        elemName      == Slice(openTagStr, 1, nameEnd)
        fwdProbe      == SkipForward(s, end)
        closeTagStart == fwdProbe
        closeTagEnd   == IndexOf(s, <<">">>, closeTagStart)
        closeTagStr   == Slice(s, closeTagStart, closeTagEnd + 1)
    IN  IF backProbe < 0 \/ At(s, backProbe) # ">" THEN [start |-> start, end |-> end]
        ELSE IF openTagStart = -1 THEN [start |-> start, end |-> end]
        ELSE IF StartsWithAt(openTagStr, <<"<", "/">>, 0) \/ EndsWith(openTagStr, <<"/", ">">>)
        THEN [start |-> start, end |-> end]
        ELSE IF nameEnd = 1 THEN [start |-> start, end |-> end]
        ELSE IF fwdProbe >= Len(s) \/ At(s, fwdProbe) # "<" THEN [start |-> start, end |-> end]
        ELSE IF closeTagEnd = -1 THEN [start |-> start, end |-> end]
        ELSE IF closeTagStr # <<"<", "/">> \o elemName \o <<">">>
        THEN [start |-> start, end |-> end]
        ELSE expandBoundary(s, openTagStart, closeTagEnd + 1)

\* SECTION_OPEN_RE.exec(s): the index of the first {#identifier}, or -1
SECTION_OPEN_RE(s) ==
    LET matches(k) == StartsWithAt(s, <<"{", "#">>, k) /\ IdentBraceEnd(s, k + 2) # -1
    IN  IF \E k \in 0..(Len(s) - 1) : matches(k)
        THEN CHOOSE k \in 0..(Len(s) - 1) : matches(k) /\ \A j \in 0..(k - 1) : ~matches(j)
        ELSE -1

\* the ceiling of the rescan loop of replaceSections
MaxRescans == 1000

\* Spread with the keys of the enclosing data winning over the item's
SpreadParentWins(d, item) ==
    [k \in DOMAIN d \cup DOMAIN item.val |-> IF k \in DOMAIN d THEN d[k] ELSE item.val[k]]

\* { ...data, ...item }
Spread(d, item) ==
    IF item.kind = "object"
    THEN [k \in DOMAIN d \cup DOMAIN item.val |->
            IF k \in DOMAIN item.val THEN item.val[k] ELSE d[k]]
    ELSE [k \in DOMAIN d \cup IndexKeys(item.val) |->
            IF k \in IndexKeys(item.val) THEN Property(item, k) ELSE d[k]]

\* Truthy with the string "0" taken for false
TruthyNotZeroString(value) ==
    CASE value.kind = "string"  -> value.val # <<>> /\ value.val # <<"0">>
      [] value.kind = "number"  -> value.val # 0
      [] value.kind = "boolean" -> value.val
      [] value.kind = "object"  -> TRUE
      [] OTHER                  -> FALSE

\* if (value): JavaScript truthiness of a value that is no array
Truthy(value) ==
    CASE value.kind = "string"  -> value.val # <<>>
      [] value.kind = "number"  -> value.val # 0
      [] value.kind = "boolean" -> value.val
      [] value.kind = "object"  -> TRUE
      [] OTHER                  -> FALSE

\* SIMPLE_RE anchored at k: the end (exclusive) of the match, or -1
SIMPLE_RE(s, k) == IF k < Len(s) /\ At(s, k) = "{" THEN IdentBraceEnd(s, k + 1) ELSE -1

\* the replacement callback of replaceSimple, for the marker's key
SimpleValue(d, key) ==
    LET value == resolveValue(d, key)
    IN  IF value.kind \in {"null", "undefined"} THEN <<>> ELSE xmlEscape(StringOf(value))

\* the global replace: leftmost match from position from, then on from its end
RECURSIVE replaceSimpleFrom(_, _, _, _)
replaceSimpleFrom(s, d, from, acc) ==
    LET k == First({j \in from..(Len(s) - 1) : SIMPLE_RE(s, j) # -1})
        e == SIMPLE_RE(s, k)
    IN  IF k = -1 THEN acc \o SliceFrom(s, from)
        ELSE replaceSimpleFrom(s, d, e,
               acc \o Slice(s, from, k) \o SimpleValue(d, Slice(s, k + 1, e - 1)))

replaceSimple(s, d) == replaceSimpleFrom(s, d, 0, <<>>)

RECURSIVE replaceAll(_, _)
RECURSIVE replaceSectionsLoop(_, _, _)
RECURSIVE replaceSectionsDropsOpen(_, _, _)
RECURSIVE MapItems(_, _, _)
RECURSIVE MapItemsParentScope(_, _, _)

\* MapItems with every item rendered against the enclosing data
MapItemsParentScope(items, inner, d) ==
    IF items = <<>> THEN <<>>
    ELSE replaceAll(inner, d) \o MapItemsParentScope(Tail(items), inner, d)

\* value.map((item) => replaceAll(inner, itemData)).join("")
MapItems(items, inner, d) ==
    IF items = <<>> THEN <<>>
    ELSE LET item == Head(items)
             itemData == IF item.kind \in {"object", "array"} THEN Spread(d, item) ELSE d
         IN  replaceAll(inner, itemData) \o MapItems(Tail(items), inner, d)

\* SectionPass with the close marker cut out as it stands, not widened
SectionPassRawClose(result, d, rawOpenStart, rawCloseStart) ==
    LET tag         == Slice(result, rawOpenStart + 2, IdentBraceEnd(result, rawOpenStart + 2) - 1)
        rawOpenEnd  == rawOpenStart + Len(tag) + 3
        rawCloseEnd == rawCloseStart + Len(tag) + 3
        openBound   == expandBoundary(result, rawOpenStart, rawOpenEnd)
        before      == Slice(result, 0, openBound.start)
        inner       == Slice(result, openBound.end, rawCloseStart)
        after       == SliceFrom(result, rawCloseEnd)
        value       == resolveValue(d, tag)
        expansion   == IF value.kind = "array" THEN MapItems(value.val, inner, d)
                       ELSE IF Truthy(value)
                       THEN replaceAll(inner, IF value.kind = "object"
                                              THEN Spread(d, value) ELSE d)
                       ELSE <<>>
    IN  before \o expansion \o after

\* the result of one pass of the loop of replaceSections, which is entered with
\* an open marker at rawOpenStart and its matching close at rawCloseStart
SectionPass(result, d, rawOpenStart, rawCloseStart) ==
    LET tag         == Slice(result, rawOpenStart + 2, IdentBraceEnd(result, rawOpenStart + 2) - 1)
        rawOpenEnd  == rawOpenStart + Len(tag) + 3
        rawCloseEnd == rawCloseStart + Len(tag) + 3
        openBound   == expandBoundary(result, rawOpenStart, rawOpenEnd)
        closeBound  == expandBoundary(result, rawCloseStart, rawCloseEnd)
        before      == Slice(result, 0, openBound.start)
        inner       == Slice(result, openBound.end, closeBound.start)
        after       == SliceFrom(result, closeBound.end)
        value       == resolveValue(d, tag)
        expansion   == IF value.kind = "array" THEN MapItems(value.val, inner, d)
                       ELSE IF Truthy(value)
                       THEN replaceAll(inner, IF value.kind = "object"
                                              THEN Spread(d, value) ELSE d)
                       ELSE <<>>
    IN  before \o expansion \o after

\* replaceSectionsLoop cutting out an open marker that has no matching close
replaceSectionsDropsOpen(result, d, safety) ==
    IF ~(safety < MaxRescans) THEN result
    ELSE LET rawOpenStart  == SECTION_OPEN_RE(result)
             tagEnd        == IdentBraceEnd(result, rawOpenStart + 2)
             tag           == Slice(result, rawOpenStart + 2, tagEnd - 1)
             rawCloseStart == findMatchingClose(result, tag, tagEnd)
         IN  IF rawOpenStart = -1 THEN result
             ELSE IF rawCloseStart = -1
             THEN replaceSectionsDropsOpen(
                    Slice(result, 0, rawOpenStart) \o SliceFrom(result, tagEnd), d, safety + 1)
             ELSE replaceSectionsDropsOpen(
                    SectionPass(result, d, rawOpenStart, rawCloseStart), d, safety + 1)

replaceSectionsLoop(result, d, safety) ==
    IF ~(safety < MaxRescans) THEN result
    ELSE LET rawOpenStart  == SECTION_OPEN_RE(result)
             tagEnd        == IdentBraceEnd(result, rawOpenStart + 2)
             tag           == Slice(result, rawOpenStart + 2, tagEnd - 1)
             rawCloseStart == findMatchingClose(result, tag, tagEnd)
         IN  IF rawOpenStart = -1 THEN result
             ELSE IF rawCloseStart = -1 THEN result
             ELSE replaceSectionsLoop(
                    SectionPass(result, d, rawOpenStart, rawCloseStart), d, safety + 1)

replaceSections(s, d) == replaceSectionsLoop(s, d, 0)

replaceAll(s, d) == removeEmptySpans(replaceSimple(replaceSections(s, d), d))

(***************************************************************************)
(* The single-pass section engine the specification describes: the         *)
(* top-level sections of the text as it is given are collected from left   *)
(* to right, each with the boundaries it has in that text, and the output  *)
(* is built in one pass; only the inner slices are processed further.      *)
(***************************************************************************)
\* the index of the first {#identifier} at or after pos, or -1
SectionOpenFrom(s, pos) ==
    LET matches(k) == StartsWithAt(s, <<"{", "#">>, k) /\ IdentBraceEnd(s, k + 2) # -1
    IN  IF \E k \in pos..(Len(s) - 1) : matches(k)
        THEN CHOOSE k \in pos..(Len(s) - 1) : matches(k) /\ \A j \in pos..(k - 1) : ~matches(j)
        ELSE -1

RECURSIVE replaceAllOnePass(_, _)
RECURSIVE MapItemsOnePass(_, _, _)
MapItemsOnePass(items, inner, d) ==
    IF items = <<>> THEN <<>>
    ELSE LET item == Head(items)
             itemData == IF item.kind \in {"object", "array"} THEN Spread(d, item) ELSE d
         IN  replaceAllOnePass(inner, itemData) \o MapItemsOnePass(Tail(items), inner, d)

\* what the section with the given inner slice is replaced by
ExpansionOnePass(inner, d, tag) ==
    LET value == resolveValue(d, tag)
    IN  IF value.kind = "array" THEN MapItemsOnePass(value.val, inner, d)
        ELSE IF Truthy(value)
        THEN replaceAllOnePass(inner, IF value.kind = "object" THEN Spread(d, value) ELSE d)
        ELSE <<>>

RECURSIVE onePassFrom(_, _, _, _)
onePassFrom(s, d, pos, acc) ==
    LET open     == SectionOpenFrom(s, pos)
        tagEnd   == IdentBraceEnd(s, open + 2)
        tag      == Slice(s, open + 2, tagEnd - 1)
        close    == findMatchingClose(s, tag, tagEnd)
        openBound  == expandBoundary(s, open, tagEnd)
        closeBound == expandBoundary(s, close, close + Len(tag) + 3)
        from     == IF openBound.start < pos THEN pos ELSE openBound.start
    IN  IF open = -1 THEN acc \o SliceFrom(s, pos)
        ELSE IF close = -1 THEN onePassFrom(s, d, tagEnd, acc \o Slice(s, pos, tagEnd))
        ELSE onePassFrom(s, d, closeBound.end,
               acc \o Slice(s, pos, from)
                   \o ExpansionOnePass(Slice(s, openBound.end, closeBound.start), d, tag))

replaceAllOnePass(s, d) == removeEmptySpans(replaceSimple(onePassFrom(s, d, 0, <<>>), d))

(***************************************************************************)
(* index.ts: fillTemplate.  A package is the sequence of its entries, each *)
(* a path and its bytes; unzipSync gives the object files and zipSync      *)
(* writes the entries of the object result in the order of its keys.  The  *)
(* keys of a JavaScript object come in the order integer indices first,    *)
(* ascending, then the other keys as they were inserted.                   *)
(***************************************************************************)
Entry(path, content) == [path |-> path, content |-> content]

\* the path is an integer index: String(n) for a number n
IsIndexKey(path) ==
    /\ path # <<>>
    /\ \A k \in DOMAIN path : path[k] \in Digit
    /\ Len(path) > 1 => path[1] # "0"

\* the entries obj of an object in the order its keys are enumerated
RECURSIVE IndexEntries(_, _)
IndexEntries(obj, n) ==
    IF n > MaxIndexKey THEN <<>>
    ELSE SelectSeq(obj, LAMBDA e : e.path = NumberToString(n)) \o IndexEntries(obj, n + 1)

OwnEntries(obj) ==
    IndexEntries(obj, 0) \o SelectSeq(obj, LAMBDA e : ~IsIndexKey(e.path))

\* obj[path] = content
SetEntry(obj, path, content) ==
    IF \E n \in DOMAIN obj : obj[n].path = path
    THEN [n \in DOMAIN obj |-> IF obj[n].path = path THEN Entry(path, content) ELSE obj[n]]
    ELSE Append(obj, Entry(path, content))

HasEntry(obj, path) == \E n \in DOMAIN obj : obj[n].path = path

GetEntry(obj, path) == obj[CHOOSE n \in DOMAIN obj : obj[n].path = path].content

\* unzipSync: the object with one key per entry of the archive
RECURSIVE unzipSync(_)
unzipSync(pkg) ==
    IF pkg = <<>> THEN <<>>
    ELSE SetEntry(unzipSync(SubSeq(pkg, 1, Len(pkg) - 1)),
                  pkg[Len(pkg)].path, pkg[Len(pkg)].content)

\* zipSync: one entry per key of the object, in the order of the keys
zipSync(obj) == OwnEntries(obj)

\* the UTF-8 bytes of the characters that occur in the parts
Utf8 ==
    ("{" :> <<123>>) @@ ("}" :> <<125>>) @@ ("a" :> <<97>>) @@ ("b" :> <<98>>)
    @@ ("<" :> <<60>>) @@ (">" :> <<62>>) @@ ("/" :> <<47>>) @@ ("x" :> <<120>>)
    @@ ("v" :> <<118>>) @@ ("U+00E9" :> <<195, 169>>) @@ ("U+FFFD" :> <<239, 191, 189>>)

\* strToU8
strToU8(s) == Concat([k \in DOMAIN s |-> Utf8[s[k]]])

\* strFromU8: a byte sequence that is no UTF-8 decodes to U+FFFD
RECURSIVE strFromU8(_)
strFromU8(bytes) ==
    IF bytes = <<>> THEN <<>>
    ELSE LET fits(c) == Len(Utf8[c]) <= Len(bytes) /\ SubSeq(bytes, 1, Len(Utf8[c])) = Utf8[c]
         IN  IF \E c \in DOMAIN Utf8 : fits(c)
             THEN LET c == CHOOSE c \in DOMAIN Utf8 : fits(c)
                  IN  <<c>> \o strFromU8(SubSeq(bytes, Len(Utf8[c]) + 1, Len(bytes)))
             ELSE <<"U+FFFD">> \o strFromU8(Tail(bytes))

ContentPath == <<"c", "o", "n", "t", "e", "n", "t", ".", "x", "m", "l">>

StylesPath == <<"s", "t", "y", "l", "e", "s", ".", "x", "m", "l">>

MimetypePath == <<"m", "i", "m", "e", "t", "y", "p", "e">>

\* the part at path, healed and filled, when the package has it
FillPart(files, path, d) ==
    IF HasEntry(files, path)
    THEN SetEntry(files, path,
                  strToU8(replaceAll(healPlaceholders(strFromU8(GetEntry(files, path))), d)))
    ELSE files

\* the result object, mimetype first and stored, the rest deflated, and its archive
Repack(files) ==
    LET first  == IF HasEntry(files, MimetypePath)
                  THEN <<Entry(MimetypePath, [bytes |-> GetEntry(files, MimetypePath), level |-> 0])>>
                  ELSE <<>>
        others == SelectSeq(OwnEntries(files), LAMBDA e : e.path # MimetypePath)
        result == first \o [n \in DOMAIN others |->
                              Entry(others[n].path, [bytes |-> others[n].content, level |-> 6])]
        zipped == zipSync(result)
    IN  [n \in DOMAIN zipped |->
            [path |-> zipped[n].path, content |-> zipped[n].content.bytes,
             level |-> zipped[n].content.level]]

fillTemplate(pkg, d) ==
    Repack(FillPart(FillPart(unzipSync(pkg), ContentPath, d), StylesPath, d))

(***************************************************************************)
(* The data as JavaScript holds it: objects and arrays live in a heap and  *)
(* are held by reference; heap[id] is the object or array with identity    *)
(* id, its properties scalars or references.                               *)
(***************************************************************************)
Ref(id) == [kind |-> "ref", val |-> id]

\* the elements of the finite set S, in some order
SeqOf(S) ==
    CHOOSE q \in [1..Cardinality(S) -> S] : \A x \in S : \E n \in DOMAIN q : q[n] = x

\* the heap h extended by the objects and arrays of the value v, and v as held
RECURSIVE Store(_, _)
RECURSIVE StoreAll(_, _)
StoreAll(h, vs) ==
    IF vs = <<>> THEN [heap |-> h, vals |-> <<>>]
    ELSE LET r    == Store(h, Head(vs))
             rest == StoreAll(r.heap, Tail(vs))
         IN  [heap |-> rest.heap, vals |-> <<r.val>> \o rest.vals]

Store(h, v) ==
    IF v.kind = "array"
    THEN LET r == StoreAll(h, v.val)
         IN  [heap |-> Append(r.heap, [kind |-> "array", val |-> r.vals]),
              val |-> Ref(Len(r.heap) + 1)]
    ELSE IF v.kind = "object"
    THEN LET ks == SeqOf(DOMAIN v.val)
             r  == StoreAll(h, [n \in 1..Len(ks) |-> v.val[ks[n]]])
         IN  [heap |-> Append(r.heap,
                         [kind |-> "object",
                          val |-> [k \in DOMAIN v.val |->
                                     r.vals[CHOOSE n \in 1..Len(ks) : ks[n] = k]]]),
              val |-> Ref(Len(r.heap) + 1)]
    ELSE [heap |-> h, val |-> v]

\* the value held as v, read out of the heap h
RECURSIVE Deref(_, _)
Deref(h, v) ==
    IF v.kind # "ref" THEN v
    ELSE IF h[v.val].kind = "array"
    THEN Arr([n \in 1..Len(h[v.val].val) |-> Deref(h, h[v.val].val[n])])
    ELSE Obj([k \in DOMAIN h[v.val].val |-> Deref(h, h[v.val].val[k])])

\* current[part] for a reference
HeapProperty(h, current, part) ==
    LET o == h[current.val]
    IN  IF o.kind = "object"
        THEN IF part \in DOMAIN o.val THEN o.val[part] ELSE Undefined
        ELSE IF part = <<"l", "e", "n", "g", "t", "h">> THEN Num(Len(o.val))
        ELSE IF part \in IndexKeys(o.val)
        THEN o.val[(CHOOSE n \in 0..(Len(o.val) - 1) : NumberToString(n) = part) + 1]
        ELSE Undefined

\* resolveValue on the heap: the value as held, a scalar or a reference
RECURSIVE resolveHeld(_, _, _)
resolveHeld(h, current, ps) ==
    IF ps = <<>> THEN current
    ELSE IF current.kind # "ref" THEN Undefined
    ELSE resolveHeld(h, HeapProperty(h, current, Head(ps)), Tail(ps))

\* the object { ...data, ...item } for the references data and item
SpreadHeld(h, d, item) ==
    LET own == IF h[item.val].kind = "object" THEN DOMAIN h[item.val].val
               ELSE IndexKeys(h[item.val].val)
    IN  [kind |-> "object",
         val |-> [k \in DOMAIN h[d.val].val \cup own |->
                    IF k \in own THEN HeapProperty(h, item, k) ELSE h[d.val].val[k]]]

(***************************************************************************)
(* The runs.  A healer run takes healPlaceholders through its steps: the   *)
(* scan, one step per placeholder from the last to the first, the rebuild. *)
(***************************************************************************)
NoData == [k \in {} |-> 0]

\* HealBegin without the early return for a ribbon that holds no placeholder
HealBeginNoReturn ==
    /\ pc = "start"
    /\ LET segs == tokenize(xml)
           rb   == buildRibbon(segs)
           phs  == findPlaceholders(rb.ribbon)
       IN  /\ orig' = segs
           /\ segments' = segs
           /\ charMap' = rb.charMap
           /\ placeholders' = phs
           /\ i' = Len(phs) - 1
           /\ healed' = healed
           /\ pc' = "healing"
    /\ UNCHANGED <<xml, parts, data, lastIndex, heap, stack, out>>

\* HealBegin with the loop started one placeholder early
HealBeginSkipsLast ==
    /\ pc = "start"
    /\ LET segs == tokenize(xml)
           rb   == buildRibbon(segs)
           phs  == findPlaceholders(rb.ribbon)
       IN  /\ orig' = segs
           /\ segments' = segs
           /\ charMap' = rb.charMap
           /\ placeholders' = phs
           /\ i' = Len(phs) - 2
           /\ IF Len(phs) = 0
              THEN healed' = xml /\ pc' = "healed"
              ELSE healed' = healed /\ pc' = "healing"
    /\ UNCHANGED <<xml, parts, data, lastIndex, heap, stack, out>>

HealBegin ==
    /\ pc = "start"
    /\ LET segs == tokenize(xml)
           rb   == buildRibbon(segs)
           phs  == findPlaceholders(rb.ribbon)
       IN  /\ orig' = segs
           /\ segments' = segs
           /\ charMap' = rb.charMap
           /\ placeholders' = phs
           /\ i' = Len(phs) - 1
           /\ IF Len(phs) = 0
              THEN healed' = xml /\ pc' = "healed"
              ELSE healed' = healed /\ pc' = "healing"
    /\ UNCHANGED <<xml, parts, data, lastIndex, heap, stack, out>>

\* HealStep taking the placeholders from the first to the last
HealStepForward ==
    /\ pc = "healing"
    /\ i >= 0
    /\ segments' = HealOne(segments, charMap, At(placeholders, Len(placeholders) - 1 - i))
    /\ i' = i - 1
    /\ UNCHANGED <<xml, parts, data, lastIndex, heap, stack, pc, orig, charMap, placeholders, healed, out>>

\* one turn of the loop reads a property of undefined: an entry of charMap or
\* of segments that is not there (a TypeError)
Faults(segs, cm, ph) ==
    LET inMap(k)  == 0 <= k /\ k < Len(cm)
        inSegs(k) == 0 <= k /\ k < Len(segs)
    IN  \/ ~inMap(ph.start)
        \/ ~inMap(ph.end)
        \/ /\ At(cm, ph.start).segIndex # At(cm, ph.end).segIndex
           /\ ~(inSegs(At(cm, ph.start).segIndex) /\ inSegs(At(cm, ph.end).segIndex))

HealStep ==
    /\ pc = "healing"
    /\ i >= 0
    /\ IF Faults(segments, charMap, At(placeholders, i))
       THEN pc' = "thrown" /\ UNCHANGED <<segments, i>>
       ELSE /\ segments' = HealOne(segments, charMap, At(placeholders, i))
            /\ i' = i - 1
            /\ pc' = pc
    /\ UNCHANGED <<xml, parts, data, lastIndex, heap, stack, orig, charMap, placeholders, healed, out>>

HealFinish ==
    /\ pc = "healing"
    /\ i < 0
    /\ healed' = removeEmptySpans(JoinContents(segments))
    /\ pc' = "healed"
    /\ UNCHANGED <<xml, parts, data, lastIndex, heap, stack, orig, segments, charMap, placeholders, i, out>>

\* tokenize called on the input
Tokenize ==
    /\ pc = "start"
    /\ segments' = tokenize(xml)
    /\ pc' = "tokenized"
    /\ UNCHANGED <<xml, parts, data, lastIndex, heap, stack, orig, charMap, placeholders, i, healed, out>>

\* fillTemplate called on the package
FillTemplate ==
    /\ pc = "start"
    /\ out' = fillTemplate(parts.package, data)
    /\ pc' = "filled"
    /\ UNCHANGED <<xml, parts, data, lastIndex, heap, stack, orig, segments, charMap, placeholders, i, healed>>

\* expandBoundary called for the marker of the input
Expand ==
    /\ pc = "start"
    /\ out' = expandBoundary(xml, parts.start, parts.end)
    /\ pc' = "expanded"
    /\ UNCHANGED <<xml, parts, data, lastIndex, heap, stack, orig, segments, charMap, placeholders, i, healed>>

\* findMatchingClose called for the open marker the input starts with
FindClose ==
    /\ pc = "start"
    /\ out' = findMatchingClose(xml, parts.tag, parts.from)
    /\ pc' = "matched"
    /\ UNCHANGED <<xml, parts, data, lastIndex, heap, stack, orig, segments, charMap, placeholders, i, healed>>

\* replaceAll called on the input as it is
Render ==
    /\ pc = "start"
    /\ out' = replaceAll(xml, data)
    /\ pc' = "rendered"
    /\ UNCHANGED <<xml, parts, data, lastIndex, heap, stack, orig, segments, charMap, placeholders, i, healed>>

\* fillTemplate: replaceAll called on the string healPlaceholders returned
RenderHealed ==
    /\ pc = "healed"
    /\ out' = replaceAll(healed, data)
    /\ pc' = "rendered"
    /\ UNCHANGED <<xml, parts, data, lastIndex, heap, stack, orig, segments, charMap, placeholders, i, healed>>

\* a second call, on the string the first call returned
HealAgain ==
    /\ pc = "healed"
    /\ out' = healPlaceholders(healed)
    /\ pc' = "rehealed"
    /\ UNCHANGED <<xml, parts, data, lastIndex, heap, stack, orig, segments, charMap, placeholders, i, healed>>

(***************************************************************************)
(* replaceAll, step by step.  A frame of the stack is one call of          *)
(* replaceAll: xml is its argument, scope the reference of its data,       *)
(* result and safety the variables of the loop of replaceSections.  While  *)
(* the expansion of a section is built the frame is in mode "items":       *)
(* before, inner and after are the three slices, items the elements still  *)
(* to render, acc the renderings joined so far.                            *)
(***************************************************************************)
Frame(s, scope, item) ==
    [xml |-> s, scope |-> scope, item |-> item, result |-> s, safety |-> 0, mode |-> "scan",
     before |-> <<>>, inner |-> <<>>, after |-> <<>>, items |-> <<>>, acc |-> <<>>]

Top == stack[Len(stack)]

SetTop(f) == [stack EXCEPT ![Len(stack)] = f]

\* the open marker the loop finds in the frame's result: its tag and the two
\* raw positions, start = -1 when there is none, close = -1 when it is unmatched
Found(f) ==
    LET rawOpenStart == SECTION_OPEN_RE(f.result)
        tagEnd       == IdentBraceEnd(f.result, rawOpenStart + 2)
        tag          == Slice(f.result, rawOpenStart + 2, tagEnd - 1)
    IN  IF rawOpenStart = -1 THEN [start |-> -1, close |-> -1, tag |-> <<>>]
        ELSE [start |-> rawOpenStart, close |-> findMatchingClose(f.result, tag, tagEnd),
              tag |-> tag]

\* the positions a pass of the loop of replaceSections computes in the frame's result
Bounds(f) ==
    LET m == Found(f)
    IN  [rawOpenStart  |-> m.start,
         rawOpenEnd    |-> m.start + Len(m.tag) + 3,
         rawCloseStart |-> m.close,
         rawCloseEnd   |-> m.close + Len(m.tag) + 3,
         openBound     |-> expandBoundary(f.result, m.start, m.start + Len(m.tag) + 3),
         closeBound    |-> expandBoundary(f.result, m.close, m.close + Len(m.tag) + 3)]

\* the loop of replaceSections is left: the ceiling, no open marker, no matching close
Exits(f) == ~(f.safety < MaxRescans) \/ Found(f).start = -1 \/ Found(f).close = -1

\* the three slices of the frame's result around the section found
Slices(f) ==
    LET m          == Found(f)
        openBound  == expandBoundary(f.result, m.start, m.start + Len(m.tag) + 3)
        closeBound == expandBoundary(f.result, m.close, m.close + Len(m.tag) + 3)
    IN  [before |-> Slice(f.result, 0, openBound.start),
         inner  |-> Slice(f.result, openBound.end, closeBound.start),
         after  |-> SliceFrom(f.result, closeBound.end)]

\* the value of the section found, as held
Value(f) == resolveHeld(heap, f.scope, Split(Found(f).tag, <<>>))

IsArray(v) == v.kind = "ref" /\ heap[v.val].kind = "array"

TruthyHeld(v) == v.kind = "ref" \/ Truthy(v)

\* the caller calls replaceAll(xml, data)
Enter ==
    /\ pc = "start"
    /\ stack' = <<Frame(xml, Ref(Len(heap)), Undefined)>>
    /\ pc' = "running"
    /\ UNCHANGED <<xml, parts, data, lastIndex, orig, segments, charMap, placeholders, i, healed, heap, out>>

\* a pass of the loop for a section whose value is falsy
SectionRemove ==
    /\ pc = "running"
    /\ Top.mode = "scan"
    /\ ~Exits(Top)
    /\ ~IsArray(Value(Top)) /\ ~TruthyHeld(Value(Top))
    /\ stack' = SetTop([Top EXCEPT !.result = Slices(Top).before \o Slices(Top).after,
                                   !.safety = @ + 1])
    /\ UNCHANGED <<xml, parts, data, lastIndex, pc, orig, segments, charMap, placeholders, i, healed, heap,
                   out>>

\* a pass of the loop for a section whose value is an array or truthy, up to
\* the first call for its inner slice
SectionOpen ==
    /\ pc = "running"
    /\ Top.mode = "scan"
    /\ ~Exits(Top)
    /\ IsArray(Value(Top)) \/ TruthyHeld(Value(Top))
    /\ stack' = SetTop([Top EXCEPT !.mode = "items",
                                   !.safety = @ + 1,
                                   !.before = Slices(Top).before,
                                   !.inner = Slices(Top).inner,
                                   !.after = Slices(Top).after,
                                   !.items = IF IsArray(Value(Top))
                                             THEN heap[Value(Top).val].val
                                             ELSE <<Value(Top)>>,
                                   !.acc = <<>>])
    /\ UNCHANGED <<xml, parts, data, lastIndex, pc, orig, segments, charMap, placeholders, i, healed, heap,
                   out>>

\* ItemCall with the whole string of the pass handed on, not its inner slice
ItemCallWhole ==
    /\ pc = "running"
    /\ Top.mode = "items"
    /\ Top.items # <<>>
    /\ LET item == Head(Top.items)
           rest == SetTop([Top EXCEPT !.items = Tail(@)])
       IN  IF item.kind = "ref"
           THEN /\ heap' = Append(heap, SpreadHeld(heap, Top.scope, item))
                /\ stack' = Append(rest, Frame(Top.result, Ref(Len(heap) + 1), item))
           ELSE /\ heap' = heap
                /\ stack' = Append(rest, Frame(Top.result, Top.scope, item))
    /\ UNCHANGED <<xml, parts, data, lastIndex, pc, orig, segments, charMap, placeholders, i, healed, out>>

\* ItemCall with the keys of the item assigned to the data of the caller
ItemCallAssigns ==
    /\ pc = "running"
    /\ Top.mode = "items"
    /\ Top.items # <<>>
    /\ LET item == Head(Top.items)
           rest == SetTop([Top EXCEPT !.items = Tail(@)])
       IN  /\ heap' = IF item.kind = "ref"
                      THEN [heap EXCEPT ![Top.scope.val] = SpreadHeld(heap, Top.scope, item)]
                      ELSE heap
           /\ stack' = Append(rest, Frame(Top.inner, Top.scope, item))
    /\ UNCHANGED <<xml, parts, data, lastIndex, pc, orig, segments, charMap, placeholders, i, healed, out>>

\* the call replaceAll(inner, itemData) for the next element, or
\* replaceAll(inner, sectionData) for the value of a conditional
ItemCall ==
    /\ pc = "running"
    /\ Top.mode = "items"
    /\ Top.items # <<>>
    /\ LET item == Head(Top.items)
           rest == SetTop([Top EXCEPT !.items = Tail(@)])
       IN  IF item.kind = "ref"
           THEN /\ heap' = Append(heap, SpreadHeld(heap, Top.scope, item))
                /\ stack' = Append(rest, Frame(Top.inner, Ref(Len(heap) + 1), item))
           ELSE /\ heap' = heap
                /\ stack' = Append(rest, Frame(Top.inner, Top.scope, item))
    /\ UNCHANGED <<xml, parts, data, lastIndex, pc, orig, segments, charMap, placeholders, i, healed, out>>

\* the renderings are joined: result = before + expansion + after
ItemsDone ==
    /\ pc = "running"
    /\ Top.mode = "items"
    /\ Top.items = <<>>
    /\ stack' = SetTop([Top EXCEPT !.mode = "scan", !.result = Top.before \o Top.acc \o Top.after])
    /\ UNCHANGED <<xml, parts, data, lastIndex, pc, orig, segments, charMap, placeholders, i, healed, heap,
                   out>>

\* the loop is left; replaceSimple and removeEmptySpans; the call returns, to
\* the call that made it or to the caller
Return ==
    /\ pc = "running"
    /\ Top.mode = "scan"
    /\ Exits(Top)
    /\ LET text == removeEmptySpans(replaceSimple(Top.result, Deref(heap, Top.scope).val))
       IN  IF Len(stack) = 1
           THEN /\ out' = text
                /\ pc' = "rendered"
                /\ stack' = <<>>
           ELSE /\ out' = out
                /\ pc' = pc
                /\ stack' = [n \in 1..(Len(stack) - 1) |->
                               IF n = Len(stack) - 1
                               THEN [stack[n] EXCEPT !.acc = @ \o text]
                               ELSE stack[n]]
    /\ UNCHANGED <<xml, parts, data, lastIndex, orig, segments, charMap, placeholders, i, healed, heap>>

NextFill == Enter \/ SectionRemove \/ SectionOpen \/ ItemCall \/ ItemsDone \/ Return

(***************************************************************************)
(* Healer inputs: every concatenation of at most MaxPieces pieces.         *)
(***************************************************************************)
SpanOpen == SpanOpenPrefix \o <<">">>

\* a whole marker, its two halves, a span's tags, a self-closing tag, a stray <
HealPieces ==
    { <<"{", "a", "}">>, <<"{">>, <<"a", "}">>,
      SpanOpen, SpanClose, <<"<", "b", "/", ">">>, <<"<">> }

\* halves of markers, a text character, an open tag, a self-closing tag
SharedPieces ==
    { <<"{">>, <<"a", "}">>, <<"x">>, SpanOpen, <<"<", "b", "/", ">">> }

Pieces(P, n) == UNION { [1..m -> P] : m \in 0..n }

InitRun(x, p, d) ==
    /\ xml = x
    /\ parts = p
    /\ data = d
    /\ pc = "start"
    /\ orig = <<>>
    /\ segments = <<>>
    /\ charMap = <<>>
    /\ placeholders = <<>>
    /\ i = -1
    /\ healed = <<>>
    /\ heap = Store(<<>>, Obj(d)).heap
    /\ stack = <<>>
    /\ lastIndex = [PLACEHOLDER_RE |-> 0, SIMPLE_RE |-> 0]
    /\ out = <<>>

InitHeal == \E ps \in Pieces(HealPieces, MaxPieces) : InitRun(Concat(ps), <<>>, NoData)

NextHeal == HealBegin \/ HealStep \/ HealFinish \/ HealAgain

SpecHeal == InitHeal /\ [][NextHeal]_vars

InitShared == \E ps \in Pieces(SharedPieces, MaxShared) : InitRun(Concat(ps), <<>>, NoData)

SpecShared == InitShared /\ [][NextHeal]_vars

(***************************************************************************)
(* Pipeline inputs.  A text a \o marker \o b is cut inside the marker into *)
(* at most MaxFragments fragments; each fragment is bare or wrapped in an  *)
(* element, and two bare fragments are kept apart by an empty element.     *)
(* The contiguous document has the whole text in the first wrapper.  The   *)
(* rest of the document follows the text in both.                          *)
(***************************************************************************)
Wrap(kind, t) ==
    CASE kind = "span" -> SpanOpen \o t \o SpanClose
      [] kind = "a"    -> <<"<", "a", ">">> \o t \o <<"<", "/", "a", ">">>
      [] kind = "p"    -> <<"<", "p", ">">> \o SpanOpen \o t \o SpanClose \o <<"<", "/", "p", ">">>
      [] OTHER         -> t

WrapKinds == {"bare", "span", "a"}

\* the fragments of t cut at the positions in cuts, from position from on
RECURSIVE Fragments(_, _, _)
Fragments(t, cuts, from) ==
    LET later == {c \in cuts : c > from} IN
    IF later = {} THEN <<SliceFrom(t, from)>>
    ELSE <<Slice(t, from, First(later))>> \o Fragments(t, cuts, First(later))

\* the fragments, each in its wrapper, joined
RECURSIVE Fragmentation(_, _, _)
Fragmentation(frags, kinds, n) ==
    IF n > Len(frags) THEN <<>>
    ELSE Wrap(kinds[n], frags[n])
         \o (IF n < Len(frags) /\ kinds[n] = "bare" /\ kinds[n + 1] = "bare"
             THEN <<"<", "b", "/", ">">> ELSE <<>>)
         \o Fragmentation(frags, kinds, n + 1)

Pads == {<<>>, <<" ">>, <<"x">>}

PipeMarkers ==
    { [marker |-> <<"{", "k", "}">>, rest |-> <<>>],
      [marker |-> <<"{", "#", "s", "}">>, rest |-> <<"Y", "{", "/", "s", "}">>] }

PipeData ==
    { (<<"k">> :> Str(<<"v">>)) @@ (<<"s">> :> v) :
        v \in {Bool(TRUE), Bool(FALSE), Arr(<<Num(1), Num(2)>>)} }

InitPipe ==
    \E m \in PipeMarkers, a \in Pads, b \in Pads, d \in PipeData :
    \E cuts \in SUBSET ((Len(a) + 1)..(Len(a) + Len(m.marker) - 1)) :
    \E kinds \in [1..(Cardinality(cuts) + 1) -> WrapKinds] :
        /\ Cardinality(cuts) + 1 <= MaxFragments
        /\ LET t == a \o m.marker \o b IN
           InitRun(Fragmentation(Fragments(t, cuts, 0), kinds, 1) \o m.rest,
                   [contiguous |-> Wrap(kinds[1], t) \o m.rest,
                    fragments |-> Cardinality(cuts) + 1,
                    kinds |-> kinds],
                   d)

NextPipe == HealBegin \/ HealStep \/ HealFinish \/ RenderHealed

SpecPipe == InitPipe /\ [][NextPipe]_vars

(***************************************************************************)
(* Escaping inputs.  The value of k is a string of at most MaxValueLen     *)
(* characters, or one of two longer ones; the marker {k} stands alone, in  *)
(* a conditional, or in a loop whose item supplies k.                      *)
(***************************************************************************)
Special == {"&", "<", ">", "\"", "'"}

EscapeValues ==
    UNION { [1..n -> Special \cup {"a"}] : n \in 0..MaxValueLen }
    \cup { <<"&", "a", "m", "p", ";">>, <<"{", "z", "}">> }

MarkerK == <<"{", "k", "}">>

InSection(name, inner) == <<"{", "#", name, "}">> \o inner \o <<"{", "/", name, "}">>

EscapeShapes == {"plain", "conditional", "loop"}

EscapePre == {<<>>, <<"<", "p", ">">>, <<"&">>}

EscapePost == {<<>>, <<"<", "/", "p", ">">>, <<"'">>}

InitEscape ==
    \E v \in EscapeValues, shape \in EscapeShapes, pre \in EscapePre, post \in EscapePost :
        InitRun(pre \o (IF shape = "plain" THEN MarkerK ELSE InSection("s", MarkerK)) \o post,
                [pre |-> pre, post |-> post, value |-> v, shape |-> shape],
                IF shape = "loop"
                THEN <<"s">> :> Arr(<<Obj(<<"k">> :> Str(v))>>)
                ELSE (<<"k">> :> Str(v)) @@ (<<"s">> :> Bool(TRUE)))

NextRender == Render

SpecEscape == InitEscape /\ [][NextRender]_vars

(***************************************************************************)
(* Lookup inputs.  The marker names the path a, a.b, ... of at most        *)
(* MaxDepth components; the data has a absent or bound to one of the       *)
(* values of LookupValues.                                                 *)
(***************************************************************************)
PathKeys == <<"a", "b", "c", "d">>

RECURSIVE DottedPath(_)
DottedPath(n) == IF n = 1 THEN <<PathKeys[1]>> ELSE DottedPath(n - 1) \o <<".", PathKeys[n]>>

LookupValues ==
    { Null, Undefined, Str(<<"s">>), Str(<<>>), Num(7), Num(0), Bool(TRUE), Bool(FALSE),
      Obj(NoData), Arr(<<>>), Arr(<<Str(<<"e">>)>>),
      Obj(<<"b">> :> Null), Obj(<<"b">> :> Undefined), Obj(<<"b">> :> Str(<<"v">>)),
      Obj(<<"b">> :> Num(5)), Obj(<<"b">> :> Bool(FALSE)), Obj(<<"b">> :> Obj(NoData)),
      Obj(<<"b">> :> Arr(<<Num(1)>>)),
      Obj(<<"b">> :> Obj(<<"c">> :> Str(<<"w">>))),
      Obj(<<"b">> :> Obj(<<"c">> :> Null)),
      Obj(<<"b">> :> Obj(<<"c">> :> Obj(<<"d">> :> Str(<<"u">>)))),
      Obj(<<"c">> :> Str(<<"w">>)) }

LookupData == {NoData} \cup { <<"a">> :> v : v \in LookupValues }

InitLookup ==
    \E n \in 1..MaxDepth, d \in LookupData, pre \in Pads, post \in Pads :
        InitRun(pre \o <<"{">> \o DottedPath(n) \o <<"}">> \o post,
                [pre |-> pre, post |-> post, depth |-> n],
                d)

SpecLookup == InitLookup /\ [][NextRender]_vars

(***************************************************************************)
(* Section inputs.  One section t around a marker-free inner content; its  *)
(* two markers are bare or wrapped; t is absent or bound to one of the     *)
(* values of SectionValues.                                                *)
(***************************************************************************)
SectionItems == {Num(0), Null, Obj(NoData)}

SectionValues ==
    { Bool(FALSE), Bool(TRUE), Null, Undefined, Num(0), Num(1), Num(-1),
      Str(<<>>), Str(<<"0">>), Str(<<"a">>), Str(<<" ">>),
      Obj(NoData), Obj(<<"k">> :> Bool(FALSE)) }
    \cup { Arr(items) : items \in UNION { [1..n -> SectionItems] : n \in 0..MaxItems } }

SectionData == {NoData} \cup { <<"t">> :> v : v \in SectionValues }

SectionWraps == {"bare", "span", "p"}

SectionPre == {<<>>, <<"x">>, <<"<", "d", ">">>}

SectionPost == {<<>>, <<"x">>, <<"<", "/", "d", ">">>}

SectionInner == {<<"Y">>, <<"<", "p", ">", "Y", "<", "/", "p", ">">>}

InitSection ==
    \E d \in SectionData, ow \in SectionWraps, cw \in SectionWraps,
       pre \in SectionPre, post \in SectionPost, inner \in SectionInner :
        InitRun(pre \o Wrap(ow, <<"{", "#", "t", "}">>) \o inner
                    \o Wrap(cw, <<"{", "/", "t", "}">>) \o post,
                [pre |-> pre, post |-> post, inner |-> inner, open |-> ow, close |-> cw],
                d)

SpecSection == InitSection /\ [][NextRender]_vars

(***************************************************************************)
(* Loop inputs.  One section t around {p}:{q}; and {p} once more after the *)
(* section.  p is bound at the top, q is bound there or absent, t is a     *)
(* sequence of at most MaxItems items: mappings that bind q, p and q, or   *)
(* nothing, and scalars.                                                   *)
(***************************************************************************)
MarkerP == <<"{", "p", "}">>

MarkerQ == <<"{", "q", "}">>

LoopItems ==
    { Obj(<<"q">> :> Str(<<"A">>)), Obj(<<"q">> :> Str(<<"B">>)),
      Obj((<<"q">> :> Str(<<"A">>)) @@ (<<"p">> :> Str(<<"Z">>))),
      Obj(NoData), Str(<<"s">>), Num(1), Null }

LoopData ==
    { top @@ (<<"p">> :> Str(<<"P">>)) @@ (<<"t">> :> Arr(items)) :
        top \in {NoData, <<"q">> :> Str(<<"Q">>)},
        items \in UNION { [1..n -> LoopItems] : n \in 0..MaxItems } }

InitLoop ==
    \E d \in LoopData, ow \in SectionWraps, pre \in SectionPre :
        InitRun(pre \o Wrap(ow, <<"{", "#", "t", "}">>) \o MarkerP \o <<":">> \o MarkerQ \o <<";">>
                    \o <<"{", "/", "t", "}">> \o MarkerP,
                [pre |-> pre, open |-> ow],
                d)

SpecLoop == InitLoop /\ [][NextRender]_vars

(***************************************************************************)
(* Nested inputs.  A section b around X inside a section a, with text      *)
(* before and after it in a's body.  a is a scalar, a mapping that may     *)
(* bind b, or a sequence of such items; b is bound at the top or absent.   *)
(***************************************************************************)
NestedInner == {Bool(TRUE), Bool(FALSE), Num(0), Str(<<"0">>), Arr(<<>>), Arr(<<Num(1), Num(2)>>)}

NestedItems == {Obj(NoData), Num(1)} \cup { Obj(<<"b">> :> v) : v \in NestedInner }

NestedOuter ==
    {Bool(TRUE), Bool(FALSE), Null, Num(0), Str(<<"y">>)}
    \cup NestedItems
    \cup { Arr(items) : items \in UNION { [1..n -> NestedItems] : n \in 0..MaxItems } }

NestedData ==
    { top @@ (<<"a">> :> v) :
        top \in {NoData} \cup { <<"b">> :> w : w \in NestedInner }, v \in NestedOuter }

NestedText == {<<>>, <<"u">>}

InitNested ==
    \E d \in NestedData, u \in NestedText, v \in NestedText, pre \in Pads :
        InitRun(pre \o InSection("a", u \o InSection("b", <<"X">>) \o v),
                [pre |-> pre, u |-> u, v |-> v],
                d)

SpecNested == InitNested /\ [][NextRender]_vars

(***************************************************************************)
(* Boundary inputs.  Each marker of one section s is bare or the only      *)
(* content, whitespace apart, of an element that is the only content of    *)
(* its parent, and so on, MaxNest elements deep at most.                   *)
(***************************************************************************)
NestNames == <<"s", "p", "d", "e">>

Attributes == {<<>>, <<" ", "x", "=", "\"", "1", "\"">>}

Blanks == {<<>>, <<" ">>, <<"\n", "\t">>}

Element(name, attr, content) ==
    <<"<", name>> \o attr \o <<">">> \o content \o <<"<", "/", name, ">">>

\* marker in n elements, blank around it and around every element inside another
RECURSIVE Nest(_, _, _, _)
Nest(n, blank, attr, marker) ==
    IF n = 0 THEN marker
    ELSE Element(NestNames[n], attr, blank \o Nest(n - 1, blank, attr, marker) \o blank)

BoundaryInner == {<<>>, <<"Y">>, <<"<", "p", ">", "Y", "<", "/", "p", ">">>}

BoundaryData ==
    { <<"s">> :> v : v \in {Bool(FALSE), Bool(TRUE), Arr(<<Num(1), Num(2)>>)} }

InitBoundary ==
    \E no \in 0..MaxNest, nc \in 0..MaxNest, bo \in Blanks, bc \in Blanks,
       attr \in Attributes, pre \in SectionPre, post \in SectionPost,
       inner \in BoundaryInner, d \in BoundaryData :
        InitRun(pre \o Nest(no, bo, attr, <<"{", "#", "s", "}">>) \o inner
                    \o Nest(nc, bc, attr, <<"{", "/", "s", "}">>) \o post,
                [pre |-> pre, post |-> post, inner |-> inner, open |-> no, close |-> nc,
                 blank |-> bo \o bc],
                d)

SpecBoundary == InitBoundary /\ [][NextRender]_vars

(***************************************************************************)
(* Malformed inputs.  An open marker {#b} that no {/b} matches, after at   *)
(* most MaxAround pieces and before at most MaxAround pieces: text, tags,  *)
(* a simple marker, a whole section c, stray close markers, and after it   *)
(* also a whole section b or one more open marker {#b}.                    *)
(***************************************************************************)
OpenB == <<"{", "#", "b", "}">>

CloseB == <<"{", "/", "b", "}">>

PlainPieces == { <<"x">>, <<"<", "p", ">">>, <<"<", "/", "p", ">">> }

PiecesBefore == PlainPieces \cup { MarkerK, InSection("c", <<"y">>), CloseB }

PiecesAfter ==
    PlainPieces \cup { MarkerK, InSection("c", <<"y">>), <<"{", "/", "c", "}">>,
                       InSection("b", <<"z">>), OpenB }

MalformedData ==
    { (<<"k">> :> Str(<<"v">>)) @@ (<<"b">> :> b) @@ (<<"c">> :> c) :
        b \in {Bool(TRUE), Bool(FALSE), Arr(<<Num(1), Num(2)>>)}, c \in {Bool(TRUE), Bool(FALSE)} }

InitMalformed ==
    \E before \in Pieces(PiecesBefore, MaxAround), after \in Pieces(PiecesAfter, MaxAround),
       d \in MalformedData :
        InitRun(Concat(before) \o OpenB \o Concat(after),
                [before |-> before, after |-> after],
                d)

SpecMalformed == InitMalformed /\ [][NextRender]_vars

(***************************************************************************)
(* Termination inputs.  Every concatenation of at most MaxTerm pieces:     *)
(* the markers of two sections in any order and number, so also unmatched, *)
(* crossing and nested under one name, text and tags; and one template of  *)
(* MaxRescans + 1 sections in a row.                                       *)
(***************************************************************************)
TermPieces ==
    { <<"{", "#", "a", "}">>, <<"{", "/", "a", "}">>, OpenB, CloseB,
      <<"x">>, <<"<", "p", ">">>, <<"<", "/", "p", ">">> }

TermData ==
    { (<<"a">> :> Bool(TRUE)) @@ (<<"b">> :> Bool(FALSE)),
      (<<"a">> :> Arr(<<Obj(<<"b">> :> Bool(TRUE)), Num(1)>>)) @@ (<<"b">> :> Bool(FALSE)),
      (<<"a">> :> Obj((<<"a">> :> Bool(FALSE)) @@ (<<"b">> :> Arr(<<Null>>))))
         @@ (<<"b">> :> Bool(TRUE)) }

\* {#a}{/a}, MaxRescans + 1 times
CeilingInput ==
    [n \in 1..(8 * (MaxRescans + 1)) |->
        <<"{", "#", "a", "}", "{", "/", "a", "}">>[((n - 1) % 8) + 1]]

InitTerminate ==
    \/ \E ps \in Pieces(TermPieces, MaxTerm), d \in TermData :
          InitRun(Concat(ps), [pieces |-> Len(ps)], d)
    \/ InitRun(CeilingInput, [pieces |-> MaxRescans + 1], <<"a">> :> Bool(FALSE))

\* the engine runs on one thread and nothing but its own conditions stops it:
\* as long as the call has not returned, steps of it keep being taken
Progress == []<>(pc = "rendered") \/ []<><<NextFill>>_vars

SpecTerminate == InitTerminate /\ [][NextFill]_vars /\ Progress

(***************************************************************************)
(* Cleanup inputs.  Span tags, a text character and the markers of one     *)
(* name, in every order of at most MaxClean pieces; the name is bound to   *)
(* the empty string, to a text, or to nothing.                             *)
(***************************************************************************)
CleanPieces ==
    { SpanOpen, SpanClose, <<"x">>, MarkerK, <<"{", "#", "k", "}">>, <<"{", "/", "k", "}">> }

CleanData == { NoData, <<"k">> :> Str(<<>>), <<"k">> :> Str(<<"v">>) }

InitCleanup ==
    \E ps \in Pieces(CleanPieces, MaxClean), d \in CleanData :
        InitRun(Concat(ps), [pieces |-> Len(ps)], d)

SpecCleanup == InitCleanup /\ [][NextRender]_vars

(***************************************************************************)
(* Arbitrary text.  Stray braces, a brace pair that is no marker, markers  *)
(* of two names in every order (unmatched, crossing, nested), a tag that   *)
(* is never closed and a self-closing tag, at most MaxSafe pieces.         *)
(***************************************************************************)
SafePieces ==
    { <<"{">>, <<"}">>, <<"{", " ", "a", "}">>, MarkerK,
      <<"{", "#", "a", "}">>, <<"{", "/", "a", "}">>,
      <<"{", "#", "b", "}">>, <<"{", "/", "b", "}">>,
      <<"<", "p">>, <<"<", "b", "/", ">">> }

SafeData ==
    { NoData,
      (<<"a">> :> Arr(<<Obj(<<"b">> :> Bool(TRUE)), Num(1)>>)) @@ (<<"k">> :> Str(<<"{", "a", "}">>)),
      (<<"a">> :> Bool(TRUE)) @@ (<<"b">> :> Obj(<<"a">> :> Null)) }

InitSafe ==
    \E ps \in Pieces(SafePieces, MaxSafe), d \in SafeData :
        InitRun(Concat(ps), [pieces |-> ps], d)

\* healPlaceholders and then replaceAll, or replaceAll on the text as it is
NextSafe == HealBegin \/ HealStep \/ HealFinish \/ RenderHealed \/ Render

SpecSafe == InitSafe /\ [][NextSafe]_vars

(***************************************************************************)
(* Tokenizer inputs.  Every string of at most MaxTokLen characters over    *)
(* the two angle brackets, a slash and a letter.                           *)
(***************************************************************************)
TokChars == {"<", ">", "/", "a"}

InitTokenize ==
    \E n \in 0..MaxTokLen : \E s \in [1..n -> TokChars] : InitRun(s, [length |-> n], NoData)

NextTokenize == Tokenize

SpecTokenize == InitTokenize /\ [][NextTokenize]_vars

(***************************************************************************)
(* Packages.  At most MaxEntries entries with distinct paths, in every     *)
(* order: the mimetype, the two parts, a picture, and an entry whose path  *)
(* is a number.  A part holds a marker in one piece, a marker cut by a     *)
(* tag, or a byte that is no UTF-8.                                        *)
(***************************************************************************)
PicturePath == <<"p", ".", "p", "n", "g">>

NumberPath == <<"1">>

PackagePaths == {MimetypePath, ContentPath, StylesPath, PicturePath, NumberPath}

PartBytes ==
    { strToU8(<<"{", "a", "}">>),
      strToU8(<<"{", "<", "b", "/", ">", "a", "}", "x">>),
      <<120, 255>> }

EntryBytes(path) ==
    IF path \in {ContentPath, StylesPath} THEN PartBytes
    ELSE IF path = MimetypePath THEN { <<97, 47, 98>> }
    ELSE { <<137, 80>> }

FillData == { NoData, <<"a">> :> Str(<<"v", "U+00E9">>) }

\* the paths of a package: at most MaxEntries of them, no path twice
PathOrders ==
    { q \in UNION { [1..n -> PackagePaths] : n \in 0..MaxEntries } :
        \A m, n \in DOMAIN q : m # n => q[m] # q[n] }

\* the package with the paths q, content.xml of the bytes c and styles.xml of the bytes s
Package(q, c, s) ==
    [n \in DOMAIN q |->
        Entry(q[n], IF q[n] = ContentPath THEN c
                    ELSE IF q[n] = StylesPath THEN s
                    ELSE CHOOSE bytes \in EntryBytes(q[n]) : TRUE)]

Packages == { Package(q, c, s) : q \in PathOrders, c \in PartBytes, s \in PartBytes }

InitFill == \E pkg \in Packages, d \in FillData : InitRun(<<>>, [package |-> pkg], d)

NextFillTemplate == FillTemplate

SpecFillTemplate == InitFill /\ [][NextFillTemplate]_vars

(***************************************************************************)
(* Surroundings of a marker.  Before the marker {#s} at most MaxBefore     *)
(* pieces and after it at most MaxAround: open and close tags of one       *)
(* element, a self-closing tag, a letter, a blank, and before the marker   *)
(* also the character >, which XML allows in text.                         *)
(***************************************************************************)
MarkerS == <<"{", "#", "s", "}">>

AroundBefore ==
    { <<"<", "p", ">">>, <<"<", "/", "p", ">">>, <<"<", "b", "/", ">">>, <<"x">>, <<">">>, <<" ">> }

AroundAfter == { <<"<", "/", "p", ">">>, <<"<", "p", ">">>, <<"x">>, <<" ">> }

InitAround ==
    \E before \in Pieces(AroundBefore, MaxBefore), after \in Pieces(AroundAfter, MaxAround) :
        InitRun(Concat(before) \o MarkerS \o Concat(after),
                [start |-> Len(Concat(before)), end |-> Len(Concat(before)) + Len(MarkerS)],
                NoData)

NextExpand == Expand

SpecAround == InitAround /\ [][NextExpand]_vars

(***************************************************************************)
(* Marker sequences.  The open marker {#a}, then at most MaxMatch pieces:  *)
(* open and close markers of the names a and b, and a letter.              *)
(***************************************************************************)
OpenA == <<"{", "#", "a", "}">>

CloseA == <<"{", "/", "a", "}">>

MatchPieces == { OpenA, CloseA, OpenB, CloseB, <<"x">> }

InitMatch ==
    \E ps \in Pieces(MatchPieces, MaxMatch) :
        InitRun(OpenA \o Concat(ps), [tag |-> <<"a">>, from |-> Len(OpenA), pieces |-> ps], NoData)

NextMatch == FindClose

SpecMatch == InitMatch /\ [][NextMatch]_vars

(***************************************************************************)
(* Strategy inputs.  Every text of at most MaxStrategy pieces out of the   *)
(* section markers of two names, a letter and the tags of a paragraph,     *)
(* with the data of TermData.                                              *)
(***************************************************************************)
InitStrategy ==
    \E ps \in Pieces(TermPieces, MaxStrategy), d \in TermData :
        InitRun(Concat(ps), [pieces |-> ps], d)

SpecStrategy == InitStrategy /\ [][NextRender]_vars

(***************************************************************************)
(* Markers in a row.  Three markers, each in one piece or cut behind its   *)
(* opening brace by a self-closing tag, an open tag, or a close and an     *)
(* open tag; between two markers nothing, text, or text with a marker in   *)
(* one piece, so that the last segment of a marker can be the first        *)
(* segment of the next.                                                    *)
(***************************************************************************)
Gaps == { <<>>, <<"<", "b", "/", ">">>, SpanOpen, SpanClose \o SpanOpen }

Mids == { <<>>, <<"x">>, <<"x", "{", "d", "}", " ">> }

CutMarker(name, gap) == <<"{">> \o gap \o <<name, "}">>

InitRow ==
    \E g1 \in Gaps, g2 \in Gaps, g3 \in Gaps, m1 \in Mids, m2 \in Mids, t \in {<<>>, <<"y">>} :
        InitRun(t \o CutMarker("a", g1) \o m1 \o CutMarker("b", g2) \o m2 \o CutMarker("c", g3) \o t,
                [gaps |-> <<g1, g2, g3>>, mids |-> <<m1, m2>>],
                NoData)

SpecRow == InitRow /\ [][NextHeal]_vars

(***************************************************************************)
(* Call sequences.  One process calls healPlaceholders and replaceAll, at  *)
(* most MaxCalls times in any order, each call on a text and a data of its *)
(* own; the cursors of PLACEHOLDER_RE and SIMPLE_RE are what the module    *)
(* keeps from one call to the next.                                        *)
(***************************************************************************)
CallPieces == { <<"{", "a", "}">>, <<"{">>, <<"a", "}">>, <<"x">>, <<"<", "b", "/", ">">> }

CallTexts == { Concat(ps) : ps \in Pieces(CallPieces, MaxCallPieces) }

CallData == { NoData, <<"a">> :> Str(<<"v">>) }

\* replaceAll as a step on the cursor of SIMPLE_RE: xml.replace(SIMPLE_RE, ...)
\* sets the cursor of a global pattern to 0 before its first match, and its
\* last, failed match leaves it at 0
replaceAllAt(s, d, cursor) == [result |-> replaceAll(s, d), lastIndex |-> 0]

CallHeal ==
    /\ pc \in {"start", "called"}
    /\ parts.calls < MaxCalls
    /\ \E x \in CallTexts :
        LET r == healPlaceholdersAt(x, lastIndex.PLACEHOLDER_RE)
        IN  /\ xml' = x
            /\ out' = r.result
            /\ lastIndex' = [lastIndex EXCEPT !.PLACEHOLDER_RE = r.lastIndex]
    /\ parts' = [calls |-> parts.calls + 1, fn |-> "healPlaceholders"]
    /\ pc' = "called"
    /\ UNCHANGED <<data, heap, stack, orig, segments, charMap, placeholders, i, healed>>

CallRender ==
    /\ pc \in {"start", "called"}
    /\ parts.calls < MaxCalls
    /\ \E x \in CallTexts, d \in CallData :
        LET r == replaceAllAt(x, d, lastIndex.SIMPLE_RE)
        IN  /\ xml' = x
            /\ data' = d
            /\ heap' = Store(<<>>, Obj(d)).heap
            /\ out' = r.result
            /\ lastIndex' = [lastIndex EXCEPT !.SIMPLE_RE = r.lastIndex]
    /\ parts' = [calls |-> parts.calls + 1, fn |-> "replaceAll"]
    /\ pc' = "called"
    /\ UNCHANGED <<stack, orig, segments, charMap, placeholders, i, healed>>

InitCalls == InitRun(<<>>, [calls |-> 0, fn |-> "none"], NoData)

NextCalls == CallHeal \/ CallRender

SpecCalls == InitCalls /\ [][NextCalls]_vars

(***************************************************************************)
(* Boundary inputs in the raw.  Every concatenation of at most MaxOrder    *)
(* pieces: the two markers of the section a, the tags of one element, a    *)
(* letter, the character >, which XML allows in text, and the start of a   *)
(* tag, so that a marker can stand in an attribute.                        *)
(***************************************************************************)
OrderPieces ==
    { OpenA, CloseA, <<"<", "p", ">">>, <<"<", "/", "p", ">">>, <<"<", "p", " ">>, <<">">>, <<"x">> }

OrderData == { <<"a">> :> Bool(TRUE), <<"a">> :> Bool(FALSE), <<"a">> :> Arr(<<Num(1)>>) }

InitOrder ==
    \E ps \in Pieces(OrderPieces, MaxOrder), d \in OrderData :
        InitRun(Concat(ps), [pieces |-> ps], d)

SpecOrder == InitOrder /\ [][NextFill]_vars

(***************************************************************************)
(* What the healer's state says about one placeholder.                     *)
(***************************************************************************)
FirstSeg(ph) == At(charMap, ph.start).segIndex

LastSeg(ph) == At(charMap, ph.end).segIndex

FirstChar(ph) == At(charMap, ph.start).charIndex

LastChar(ph) == At(charMap, ph.end).charIndex

Fragmented(ph) == FirstSeg(ph) # LastSeg(ph)

Placeholders == { placeholders[n] : n \in 1..Len(placeholders) }

SelfClosing(seg) == seg.type = "tag" /\ EndsWith(seg.content, <<"/", ">">>)

\* no marker pattern occurs in string r
NoMarkerIn(r) == \A k \in 0..(Len(r) - 1) : PLACEHOLDER_RE(r, k) = -1

\* every marker of the ribbon of string s lies within one text segment of s
MarkersWhole(s) ==
    LET rb == buildRibbon(tokenize(s))
    IN  \A k \in 0..(Len(rb.ribbon) - 1) :
           PLACEHOLDER_RE(rb.ribbon, k) # -1 =>
              At(rb.charMap, k).segIndex =
              At(rb.charMap, PLACEHOLDER_RE(rb.ribbon, k) - 1).segIndex

\* the stepwise run and the function agree
StepsAgree == pc \in {"healed", "rehealed"} => healed = healPlaceholders(xml)

\* the stepwise run of replaceAll and the function agree
RunsAgree == pc = "rendered" => out = replaceAll(xml, data)

(***************************************************************************)
(* C1.  Idempotence: healing the healed string changes nothing,            *)
(* healPlaceholders(healPlaceholders(xml)) = healPlaceholders(xml).        *)
(***************************************************************************)
C1_Idempotent == pc = "rehealed" => out = healed

(***************************************************************************)
(* C2.  Fragmentation invariance: healing and then filling a document      *)
(* whose marker is split over several segments gives the same text content *)
(* as filling the document that has the marker in one piece.               *)
(***************************************************************************)
C2_FragmentationInvariant ==
    pc = "rendered" => Ribbon(out) = Ribbon(replaceAll(parts.contiguous, data))

(***************************************************************************)
(* C3.  Passthrough: when the ribbon of xml holds no marker pattern,       *)
(* healPlaceholders returns xml itself; no cleanup is applied to it.       *)
(***************************************************************************)
C3_Passthrough == pc = "healed" /\ NoMarkerIn(Ribbon(xml)) => healed = xml

\* a marker-free input that the cleanup would have changed has been healed
C3_Witness ==
    pc = "healed" /\ NoMarkerIn(Ribbon(xml)) /\ removeEmptySpans(xml) # xml

(***************************************************************************)
(* C4.  When every marker of the ribbon already lies within one text       *)
(* segment, healPlaceholders returns xml unchanged.                        *)
(***************************************************************************)
C4_ContiguousUnchanged ==
    pc = "healed" /\ (\A ph \in Placeholders : ~Fragmented(ph)) => healed = xml

Between(ph) == (FirstSeg(ph) + 1)..(LastSeg(ph) - 1)

BetweenCleared(ph) ==
    \A s \in Between(ph) :
       At(orig, s).type = "text" \/ SelfClosing(At(orig, s)) => At(segments, s).content = <<>>

C6_ConsolidatedAsClaimed ==
    pc = "healed" =>
       \A ph \in Placeholders :
          Fragmented(ph) =>
             /\ At(segments, FirstSeg(ph)).content =
                   Slice(At(orig, FirstSeg(ph)).content, 0, FirstChar(ph)) \o ph.text
             /\ At(segments, LastSeg(ph)).content =
                   SliceFrom(At(orig, LastSeg(ph)).content, LastChar(ph) + 1)
             /\ BetweenCleared(ph)

(***************************************************************************)
(* C6 as amended.  A boundary segment may be shared: the last segment of   *)
(* one fragmented marker can be the first segment of the next.  After      *)
(* healing, the first segment holds its own text from behind the closing   *)
(* brace of a fragmented marker that ends in it (from its start when there *)
(* is none) up to the marker, followed by the whole marker; the last       *)
(* segment holds its text after the closing brace, up to and including     *)
(* the whole of a fragmented marker that begins in it (up to its end when  *)
(* there is none); the segments between are cleared as claimed.            *)
(***************************************************************************)
\* where the own text of the first segment of ph begins
OwnTextStart(ph) ==
    LET prev == { q \in Placeholders : Fragmented(q) /\ LastSeg(q) = FirstSeg(ph) /\ q.end < ph.start }
    IN  IF prev = {} THEN 0 ELSE LastChar(CHOOSE q \in prev : TRUE) + 1

\* what the last segment of ph holds behind the closing brace
TextAfter(ph) ==
    LET next == { q \in Placeholders : Fragmented(q) /\ FirstSeg(q) = LastSeg(ph) /\ q.start > ph.end }
        q    == CHOOSE r \in next : TRUE
        own  == At(orig, LastSeg(ph)).content
    IN  IF next = {} THEN SliceFrom(own, LastChar(ph) + 1)
        ELSE Slice(own, LastChar(ph) + 1, FirstChar(q)) \o q.text

C6_Consolidated ==
    pc = "healed" =>
       \A ph \in Placeholders :
          Fragmented(ph) =>
             /\ At(segments, FirstSeg(ph)).content =
                   Slice(At(orig, FirstSeg(ph)).content, OwnTextStart(ph), FirstChar(ph)) \o ph.text
             /\ At(segments, LastSeg(ph)).content = TextAfter(ph)
             /\ BetweenCleared(ph)

\* two fragmented markers that share a segment have been healed, with a
\* self-closing tag between the fragments of one of them
C6_Witness ==
    /\ pc = "healed"
    /\ \E ph \in Placeholders, q \in Placeholders :
          /\ Fragmented(ph) /\ Fragmented(q) /\ LastSeg(ph) = FirstSeg(q)
          /\ \E s \in Between(ph) \cup Between(q) : SelfClosing(At(orig, s))

(***************************************************************************)
(* C7.  Healing leaves every open or close tag as it was, also between the *)
(* first and last segment of a fragmented marker, and every segment that   *)
(* lies outside the span of every fragmented marker; the string returned   *)
(* is the rebuilt segments less the empty text:span pairs.                 *)
(***************************************************************************)
InsideFragmented(s) ==
    \E ph \in Placeholders : Fragmented(ph) /\ FirstSeg(ph) <= s /\ s <= LastSeg(ph)

C7_FrameOfHealing ==
    /\ pc \in {"healing", "healed"} =>
          /\ Len(segments) = Len(orig)
          /\ \A s \in 0..(Len(orig) - 1) :
                At(orig, s).type = "tag" /\ ~SelfClosing(At(orig, s))
                   => At(segments, s) = At(orig, s)
          /\ \A s \in 0..(Len(orig) - 1) :
                ~InsideFragmented(s) => At(segments, s) = At(orig, s)
    /\ pc = "healed" /\ placeholders # <<>> =>
          healed = removeEmptySpans(JoinContents(segments))

\* a marker has been healed across an open or close tag, with a self-closing
\* tag and a text segment outside its span
C7_Witness ==
    /\ pc = "healed"
    /\ \E ph \in Placeholders :
          /\ Fragmented(ph)
          /\ \E s \in Between(ph) : At(orig, s).type = "tag" /\ ~SelfClosing(At(orig, s))
    /\ \E s \in 0..(Len(orig) - 1) : ~InsideFragmented(s) /\ SelfClosing(At(orig, s))
    /\ \E s \in 0..(Len(orig) - 1) : ~InsideFragmented(s) /\ At(orig, s).type = "text"

(***************************************************************************)
(* C8.  Escaping: the string put in place of a marker is the value with    *)
(* each & < > " ' replaced by its entity and every other character kept,   *)
(* also for a marker inside a conditional or a loop; the text outside the  *)
(* markers is as it was.                                                   *)
(***************************************************************************)
Entity(c) ==
    CASE c = "&"  -> <<"&", "a", "m", "p", ";">>
      [] c = "<"  -> <<"&", "l", "t", ";">>
      [] c = ">"  -> <<"&", "g", "t", ";">>
      [] c = "\"" -> <<"&", "q", "u", "o", "t", ";">>
      [] c = "'"  -> <<"&", "a", "p", "o", "s", ";">>
      [] OTHER    -> <<c>>

Escaped(v) == Concat([n \in 1..Len(v) |-> Entity(v[n])])

C8_Escaped ==
    pc = "rendered" => out = parts.pre \o Escaped(parts.value) \o parts.post

\* the same, for the values that hold no brace
C8_EscapedBraceFree ==
    pc = "rendered" /\ (\A n \in 1..Len(parts.value) : parts.value[n] \notin {"{", "}"})
        => out = parts.pre \o Escaped(parts.value) \o parts.post

(***************************************************************************)
(* C9.  Dotted lookup: when the path of a marker meets a missing key,      *)
(* null, undefined or a value that is no object before its last component, *)
(* the marker is replaced by the empty string (and the lookup does not     *)
(* fail: the run reaches its end with a result).                           *)
(***************************************************************************)
Missing == [kind |-> "missing", val |-> 0]

\* the value found by following the keys ks from v, Missing where a key is absent
RECURSIVE Follow(_, _)
Follow(v, ks) ==
    IF ks = <<>> THEN v
    ELSE IF v.kind = "object" /\ <<Head(ks)>> \in DOMAIN v.val
         THEN Follow(v.val[<<Head(ks)>>], Tail(ks))
         ELSE Missing

DeadEnd ==
    \E n \in 1..(parts.depth - 1) :
        Follow(Obj(data), SubSeq(PathKeys, 1, n)).kind \notin {"object"}

C9_DeadEndEmpty ==
    pc = "rendered" /\ DeadEnd => out = parts.pre \o parts.post

\* a path of three components has met a string at its first component
C9_Witness ==
    /\ pc = "rendered"
    /\ parts.depth = 3
    /\ <<"a">> \in DOMAIN data /\ data[<<"a">>] = Str(<<"s">>)
    /\ out = parts.pre \o parts.post

(***************************************************************************)
(* C10.  Truthiness: a section is removed exactly when its value is false, *)
(* null, undefined, 0, the empty string or the empty sequence; for every   *)
(* other value, the string "0" among them, its inner content is included   *)
(* (once, or once per element of a sequence).                              *)
(***************************************************************************)
ClaimedFalsy(v) ==
    \/ v.kind \in {"null", "undefined"}
    \/ v.kind = "boolean" /\ v.val = FALSE
    \/ v.kind = "number" /\ v.val = 0
    \/ v.kind = "string" /\ v.val = <<>>
    \/ v.kind = "array" /\ v.val = <<>>

SectionValue == IF <<"t">> \in DOMAIN data THEN data[<<"t">>] ELSE Undefined

Copies(t, n) == Concat([m \in 1..n |-> t])

C10_RemovedWhenFalsy ==
    pc = "rendered" =>
        /\ ClaimedFalsy(SectionValue) <=> out = parts.pre \o parts.post
        /\ ~ClaimedFalsy(SectionValue) =>
              out = parts.pre
                    \o Copies(parts.inner,
                              IF SectionValue.kind = "array" THEN Len(SectionValue.val) ELSE 1)
                    \o parts.post

\* the section of the string "0" has been kept, its markers and their
\* wrappers gone
C10_Witness ==
    /\ pc = "rendered"
    /\ SectionValue = Str(<<"0">>)
    /\ parts.open = "p" /\ parts.close = "span"
    /\ out = parts.pre \o parts.inner \o parts.post

(***************************************************************************)
(* C11.  Loop expansion and scope: a section whose value is a sequence of  *)
(* n elements is replaced by n renderings of its inner content, in element *)
(* order; a key is looked up in the element when the element is a mapping  *)
(* that binds it and in the enclosing data otherwise; what an element      *)
(* binds is seen in its own iteration only.                                *)
(***************************************************************************)
\* the value of key in the iteration of item
InIteration(item, key) ==
    IF item.kind = "object" /\ key \in DOMAIN item.val THEN item.val[key]
    ELSE IF key \in DOMAIN data THEN data[key]
    ELSE Undefined

Shown(v) == IF v.kind = "string" THEN v.val ELSE <<>>

Iteration(item) ==
    Shown(InIteration(item, <<"p">>)) \o <<":">> \o Shown(InIteration(item, <<"q">>)) \o <<";">>

C11_LoopScope ==
    pc = "rendered" =>
        LET items == data[<<"t">>].val
        IN  out = parts.pre \o Concat([n \in 1..Len(items) |-> Iteration(items[n])])
                  \o Shown(data[<<"p">>])

\* two iterations, the first with its own p, then the p of the enclosing data again
C11_Witness ==
    /\ pc = "rendered"
    /\ <<"q">> \in DOMAIN data
    /\ Len(data[<<"t">>].val) = 2
    /\ data[<<"t">>].val[1] = Obj((<<"q">> :> Str(<<"A">>)) @@ (<<"p">> :> Str(<<"Z">>)))
    /\ data[<<"t">>].val[2] = Str(<<"s">>)
    /\ out = parts.pre \o <<"Z", ":", "A", ";", "P", ":", "Q", ";", "P">>

(***************************************************************************)
(* C12.  Nested sections: the section b inside the section a is resolved   *)
(* against the scope of a's body, for each iteration of a on its own; when *)
(* a is removed nothing of b's content is in the output, whatever b is.    *)
(***************************************************************************)
\* the value of b in the body of a rendered for item (a itself when a is no sequence)
InnerValue(item) ==
    IF item.kind = "object" /\ <<"b">> \in DOMAIN item.val THEN item.val[<<"b">>]
    ELSE IF <<"b">> \in DOMAIN data THEN data[<<"b">>]
    ELSE Undefined

InnerShown(v) ==
    IF ClaimedFalsy(v) THEN <<>>
    ELSE IF v.kind = "array" THEN Copies(<<"X">>, Len(v.val))
    ELSE <<"X">>

BodyShown(item) == parts.u \o InnerShown(InnerValue(item)) \o parts.v

C12_Nested ==
    pc = "rendered" =>
        LET a == data[<<"a">>]
        IN  out = parts.pre \o
                  (IF ClaimedFalsy(a) THEN <<>>
                   ELSE IF a.kind = "array"
                   THEN Concat([n \in 1..Len(a.val) |-> BodyShown(a.val[n])])
                   ELSE BodyShown(a))

\* two iterations of a, b true in the first and false in the second, against
\* a top where b is true
C12_Witness ==
    /\ pc = "rendered"
    /\ <<"b">> \in DOMAIN data /\ data[<<"b">>] = Bool(TRUE)
    /\ data[<<"a">>] = Arr(<<Obj(<<"b">> :> Bool(TRUE)), Obj(<<"b">> :> Bool(FALSE))>>)
    /\ out = parts.pre \o parts.u \o <<"X">> \o parts.v \o parts.u \o parts.v

(***************************************************************************)
(* C13.  Boundary expansion: the boundary of a section marker that is,     *)
(* whitespace apart, the only content of an element, that element the only *)
(* content of its parent, and so on, is widened to the outermost such      *)
(* element, for the open marker and for the close marker on their own:     *)
(* what is left of the section is its inner content, or nothing, and no    *)
(* wrapper of a marker.                                                    *)
(***************************************************************************)
C13_BoundaryWidened ==
    pc = "rendered" =>
        LET s == data[<<"s">>]
            n == IF s.kind = "array" THEN Len(s.val) ELSE IF s.val THEN 1 ELSE 0
        IN  out = parts.pre \o Copies(parts.inner, n) \o parts.post

\* the open marker two elements deep with blanks, the close marker one deep,
\* the section removed
C13_Witness ==
    /\ pc = "rendered"
    /\ parts.open = 2 /\ parts.close = 1 /\ parts.blank # <<>>
    /\ parts.inner = <<"Y">>
    /\ data[<<"s">>] = Bool(FALSE)
    /\ out = parts.pre \o parts.post

(***************************************************************************)
(* C14.  Malformed input: an open marker {#b} that no {/b} matches is left *)
(* in the output as it is, after what the text before it renders to; a     *)
(* template with no other marker, such as {#b}x</p>, is returned           *)
(* unchanged.                                                              *)
(***************************************************************************)
\* what a piece before the open marker renders to
PieceShown(piece) ==
    IF piece = MarkerK THEN Shown(data[<<"k">>])
    ELSE IF piece = InSection("c", <<"y">>) THEN (IF data[<<"c">>].val THEN <<"y">> ELSE <<>>)
    ELSE piece

BeforeShown == Concat([n \in 1..Len(parts.before) |-> PieceShown(parts.before[n])])

Plain(ps) == \A n \in 1..Len(ps) : ps[n] \in PlainPieces

C14_OpenMarkerKept ==
    pc = "rendered" =>
        /\ Len(out) >= Len(BeforeShown) + Len(OpenB)
        /\ Slice(out, 0, Len(BeforeShown) + Len(OpenB)) = BeforeShown \o OpenB
        /\ Plain(parts.before) /\ Plain(parts.after) => out = xml

\* the template {#b}x</p>, b true, returned as it is
C14_Witness ==
    /\ pc = "rendered"
    /\ data[<<"b">>] = Bool(TRUE)
    /\ parts.before = <<>>
    /\ parts.after = << <<"x">>, <<"<", "/", "p", ">">> >>
    /\ out = OpenB \o <<"x", "<", "/", "p", ">">>

(***************************************************************************)
(* C15.  Termination: every call of replaceAll returns; no call makes more *)
(* than MaxRescans passes of the loop of replaceSections; every call made  *)
(* from a pass is for a slice shorter than the string the pass works on;   *)
(* at the ceiling the string as far as it was processed is returned.       *)
(***************************************************************************)
C15_Bounded ==
    /\ pc \in {"start", "running", "rendered"}
    /\ pc = "running" <=> stack # <<>>
    /\ \A n \in DOMAIN stack :
          /\ stack[n].safety <= MaxRescans
          /\ n > 1 => Len(stack[n].xml) < Len(stack[n - 1].result)
    /\ pc = "rendered" /\ parts.pieces = MaxRescans + 1 =>
          out = <<"{", "#", "a", "}", "{", "/", "a", "}">>

C15_Terminates == [](C15_Bounded) /\ <>(pc = "rendered")

\* two calls for the inner slice of a loop have returned, the loop was left at
\* an unmatched open marker, and the caller has its string
C15_Witness ==
    /\ pc = "rendered"
    /\ xml = <<"{", "#", "a", "}", "x", "{", "/", "a", "}">> \o <<"{", "#", "a", "}">>
    /\ Len(heap) > Len(Store(<<>>, Obj(data)).heap)
    /\ out = <<"x", "x", "{", "#", "a", "}">>

(***************************************************************************)
(* C16.  The string returned by replaceAll contains no text:span open tag  *)
(* that is immediately followed by the span's close tag.                   *)
(***************************************************************************)
HasEmptySpan(s) == \E k \in 0..(Len(s) - 1) : EmptySpanEnd(s, k) # -1

C16_NoEmptySpan == pc = "rendered" => ~HasEmptySpan(out)

(***************************************************************************)
(* C17.  When xml holds no marker, replaceAll(xml, data) returns xml       *)
(* unchanged, for every data.                                              *)
(***************************************************************************)
C17_RenderPassthrough == pc = "rendered" /\ NoMarkerIn(xml) => out = xml

(***************************************************************************)
(* C18.  healPlaceholders and replaceAll throw on no text: no turn of the  *)
(* healing loop reads an entry that is not there, and what either call     *)
(* returns is a string.                                                    *)
(***************************************************************************)
IsString(s) == s \in Seq(STRING)

C18_NoThrow ==
    /\ pc # "thrown"
    /\ pc = "healed" => IsString(healed)
    /\ pc = "rendered" => IsString(out)

\* a stray brace, an open marker without its close, a close marker without its
\* open and a tag that is never closed went through both calls
C18_Witness ==
    /\ pc = "rendered"
    /\ parts.pieces = << <<"{">>, <<"{", "#", "a", "}">>, <<"{", "/", "b", "}">>, <<"<", "p">> >>
    /\ placeholders # <<>>
    /\ data # NoData

(***************************************************************************)
(* C19.  replaceAll never changes the data it was given: at every step the *)
(* mapping of the caller, and every mapping and sequence nested in it, is  *)
(* as it was at the call.  C19_AsClaimed adds what the claim says of the   *)
(* scopes: every call for an element of a loop, and every call for the     *)
(* object that is the value of a section, has a mapping built for it.      *)
(* C19_DataKept says what holds: such a mapping is built for an element or *)
(* value that is an object, parent keys overlaid by its own; for any other *)
(* element or value the call is given the mapping of its caller itself.    *)
(***************************************************************************)
CallerHeap == Store(<<>>, Obj(data)).heap

CallerDataKept ==
    /\ Len(heap) >= Len(CallerHeap)
    /\ \A id \in DOMAIN CallerHeap : heap[id] = CallerHeap[id]
    /\ pc = "rendered" => Deref(heap, Ref(Len(CallerHeap))) = Obj(data)

\* the mapping of call n was built for that call
NewlyBuilt(n) ==
    /\ stack[n].scope.val > Len(CallerHeap)
    /\ \A m \in 1..(n - 1) : stack[m].scope # stack[n].scope

C19_AsClaimed ==
    /\ CallerDataKept
    /\ \A n \in DOMAIN stack :
          n > 1 /\ (IsArray(Value(stack[n - 1])) \/ stack[n].item.kind = "ref") => NewlyBuilt(n)

C19_DataKept ==
    /\ CallerDataKept
    /\ \A n \in DOMAIN stack : n > 1 =>
          IF stack[n].item.kind = "ref"
          THEN /\ NewlyBuilt(n)
               /\ heap[stack[n].scope.val] = SpreadHeld(heap, stack[n - 1].scope, stack[n].item)
          ELSE stack[n].scope = stack[n - 1].scope

\* a loop over an object and a number has been rendered: one mapping was built
C19_Witness ==
    /\ pc = "rendered"
    /\ xml = <<"{", "#", "a", "}", "{", "#", "b", "}", "{", "/", "b", "}", "{", "/", "a", "}">>
    /\ data[<<"a">>] = Arr(<<Obj(<<"b">> :> Bool(TRUE)), Num(1)>>)
    /\ Len(heap) = Len(CallerHeap) + 1

(***************************************************************************)
(* C20.  The contents of tokenize(s), joined in order, are s; the empty    *)
(* string gives no segment; a tag segment runs from a < to the first >     *)
(* behind it; a text segment is a non-empty run without <, except that a < *)
(* with no > behind it starts one last text segment that runs to the end   *)
(* of s; and no two text segments are adjacent but for that last one.      *)
(***************************************************************************)
Has(s, c) == \E k \in DOMAIN s : s[k] = c

WellCut(segs, n) ==
    LET c == segs[n].content
    IN  /\ c # <<>>
        /\ IF segs[n].type = "tag"
           THEN /\ At(c, 0) = "<"
                /\ IndexOf(c, <<">">>, 0) = Len(c) - 1
           ELSE IF At(c, 0) = "<"
           THEN n = Len(segs) /\ ~Has(c, ">")
           ELSE /\ ~Has(c, "<")
                /\ n > 1 => segs[n - 1].type = "tag"

C20_RoundTrip ==
    pc = "tokenized" =>
        /\ JoinContents(segments) = xml
        /\ xml = <<>> <=> segments = <<>>
        /\ \A n \in DOMAIN segments :
              /\ segments[n].type \in {"tag", "text"}
              /\ WellCut(segments, n)

\* a text, a tag and the remainder behind an unterminated < have been cut
C20_Witness ==
    /\ pc = "tokenized"
    /\ xml = <<"a", "<", "a", ">", "<", "a">>
    /\ segments = <<Text(<<"a">>), Tag(<<"<", "a", ">">>), Text(<<"<", "a">>)>>

(***************************************************************************)
(* C21.  fillTemplate writes the entries of the package it was given: the  *)
(* mimetype first and uncompressed, content.xml and styles.xml each as     *)
(* replaceAll(healPlaceholders(part), data) of its own bytes, and every    *)
(* other entry with the bytes it had.  PartsFilled is the part of it that  *)
(* does not speak of the order.                                            *)
(***************************************************************************)
Filled(bytes) == strToU8(replaceAll(healPlaceholders(strFromU8(bytes)), data))

PartsFilled ==
    pc = "filled" =>
        /\ Len(out) = Len(parts.package)
        /\ \A e \in { parts.package[n] : n \in DOMAIN parts.package } :
              \E n \in DOMAIN out :
                 /\ out[n].path = e.path
                 /\ out[n].content = IF e.path \in {ContentPath, StylesPath}
                                     THEN Filled(e.content) ELSE e.content
                 /\ out[n].level = IF e.path = MimetypePath THEN 0 ELSE 6

C21_FillTemplate ==
    /\ PartsFilled
    /\ pc = "filled" /\ HasEntry(parts.package, MimetypePath) => out[1].path = MimetypePath

(***************************************************************************)
(* C22.  Rescan completeness: when replaceSections returns below the       *)
(* ceiling, no open marker of the string it returns has a matching close,  *)
(* also when an open marker without a matching close stands before it.     *)
(***************************************************************************)
\* the positions of the open markers of s that have a matching close
Resolvable(s) ==
    { k \in 0..(Len(s) - 1) :
        /\ StartsWithAt(s, <<"{", "#">>, k)
        /\ IdentBraceEnd(s, k + 2) # -1
        /\ findMatchingClose(s, Slice(s, k + 2, IdentBraceEnd(s, k + 2) - 1),
                             IdentBraceEnd(s, k + 2)) # -1 }

C22_RescanComplete ==
    pc = "rendered" => Resolvable(replaceSections(xml, data)) = {}

(***************************************************************************)
(* C23.  Boundary expansion is conservative: the widened boundary holds    *)
(* the marker, whitespace, and the open and close tags of the elements     *)
(* that wrap the marker, and nothing else.                                 *)
(***************************************************************************)
Blank(s) == \A k \in DOMAIN s : s[k] \in Whitespace

\* s is whitespace around the string m
BlankAround(s, m) ==
    \E k \in 0..(Len(s) - Len(m)) :
        /\ StartsWithAt(s, m, k)
        /\ Blank(Slice(s, 0, k))
        /\ Blank(SliceFrom(s, k + Len(m)))

\* segs is open tags, then one text that is the marker m in whitespace, then
\* as many close tags, with blank texts between the tags
RECURSIVE Wraps(_, _)
Wraps(segs, m) ==
    LET inner == [n \in 1..(Len(segs) - 2) |-> segs[n + 1]]
        first == segs[1]
        last  == segs[Len(segs)]
    IN  IF Len(segs) = 1 THEN first.type = "text" /\ BlankAround(first.content, m)
        ELSE IF Len(segs) = 0 THEN FALSE
        ELSE IF first.type = "text" THEN Blank(first.content) /\ Wraps(Tail(segs), m)
        ELSE IF last.type = "text"
        THEN Blank(last.content) /\ Wraps(SubSeq(segs, 1, Len(segs) - 1), m)
        ELSE /\ ~StartsWithAt(first.content, <<"<", "/">>, 0)
             /\ ~EndsWith(first.content, <<"/", ">">>)
             /\ StartsWithAt(last.content, <<"<", "/">>, 0)
             /\ Wraps(inner, m)

C23_Conservative ==
    pc = "expanded" =>
        /\ out.start <= parts.start /\ parts.end <= out.end
        /\ Wraps(tokenize(Slice(xml, out.start, out.end)), MarkerS)

(***************************************************************************)
(* C24.  findMatchingClose returns the first close marker of the name at   *)
(* which the open markers of that name since the search began, the one     *)
(* searched for included, are as many as its close markers; -1 when there  *)
(* is none.                                                                *)
(***************************************************************************)
\* open markers minus close markers of the name tag in s from from up to k
Depth(s, tag, from, k) ==
    1 + Cardinality({ j \in from..k : StartsWithAt(s, <<"{", "#">> \o tag \o <<"}">>, j) })
      - Cardinality({ j \in from..k : StartsWithAt(s, <<"{", "/">> \o tag \o <<"}">>, j) })

Balanced(s, tag, from) ==
    { k \in from..(Len(s) - 1) :
        StartsWithAt(s, <<"{", "/">> \o tag \o <<"}">>, k) /\ Depth(s, tag, from, k) = 0 }

C24_MatchingClose ==
    pc = "matched" => out = First(Balanced(xml, parts.tag, parts.from))

\* {#a}{#a}x{/a}{/a}: the outer open marker is paired with the outer close
C24_Witness ==
    /\ pc = "matched"
    /\ parts.pieces = <<OpenA, <<"x">>, CloseA, CloseA>>
    /\ out = 13

(***************************************************************************)
(* C25.  Strategy equivalence.  C25_AsClaimed: for every text and data the *)
(* output of replaceAll equals the output of the single-pass engine.       *)
(* C25_Equivalent: the two are equal for a text whose section markers are  *)
(* properly nested, every open marker with its close, and in which a       *)
(* character of text, not whitespace, stands between the close marker of a *)
(* section and the open marker of the section that follows it.             *)
(***************************************************************************)
\* the section markers of s in the order of the text
SectionMarkers(s) ==
    LET at == { k \in 0..(Len(s) - 1) :
                  /\ k + 1 < Len(s) /\ At(s, k + 1) \in {"#", "/"}
                  /\ PLACEHOLDER_RE(s, k) # -1 }
        RECURSIVE InOrder(_)
        InOrder(K) ==
            IF K = {} THEN <<>>
            ELSE LET k == First(K)
                 IN  <<[pos |-> k, end |-> PLACEHOLDER_RE(s, k), open |-> At(s, k + 1) = "#",
                        name |-> Slice(s, k + 2, PLACEHOLDER_RE(s, k) - 1)]>>
                     \o InOrder(K \ {k})
    IN  InOrder(at)

\* every close marker closes the open marker last opened, and none stays open
RECURSIVE Nested(_, _)
Nested(ms, opened) ==
    IF ms = <<>> THEN opened = <<>>
    ELSE IF Head(ms).open THEN Nested(Tail(ms), <<Head(ms).name>> \o opened)
    ELSE /\ opened # <<>>
         /\ Head(opened) = Head(ms).name
         /\ Nested(Tail(ms), Tail(opened))

\* text that is not whitespace stands between a close marker and the open
\* marker that follows it
Separated(s) ==
    LET ms == SectionMarkers(s)
    IN  \A n \in 1..(Len(ms) - 1) :
           ~ms[n].open /\ ms[n + 1].open =>
              \E c \in { Ribbon(Slice(s, ms[n].end, ms[n + 1].pos))[k] :
                           k \in DOMAIN Ribbon(Slice(s, ms[n].end, ms[n + 1].pos)) } :
                 c \notin Whitespace

NowAt(r) == At(At(segments, At(charMap, r).segIndex).content, At(charMap, r).charIndex)

StillAddressed(ph) ==
    /\ \A r \in ph.start..ph.end :
          /\ At(charMap, r).charIndex < Len(At(segments, At(charMap, r).segIndex).content)
          /\ NowAt(r) = At(ph.text, r - ph.start)
    /\ Slice(At(segments, FirstSeg(ph)).content, 0, FirstChar(ph))
          = Slice(At(orig, FirstSeg(ph)).content, 0, FirstChar(ph))

C26_IndicesValid ==
    pc = "healing" =>
        /\ i >= 0 => StillAddressed(At(placeholders, i))
        /\ i < 0 =>
              \A m \in 1..(Len(placeholders) - 1) :
                 LET ph == placeholders[m]
                     q  == placeholders[m + 1]
                 IN  Fragmented(ph) /\ Fragmented(q) /\ LastSeg(ph) = FirstSeg(q) =>
                        At(segments, FirstSeg(q)).content =
                           Slice(At(orig, FirstSeg(q)).content, LastChar(ph) + 1, FirstChar(q))
                           \o q.text

\* the loop has come to a marker whose last segment was rewritten as the first
\* segment of the marker after it, with text between the two
C26_Witness ==
    /\ pc = "healing"
    /\ i >= 0 /\ i + 2 <= Len(placeholders)
    /\ LET ph == At(placeholders, i)
           q  == At(placeholders, i + 1)
       IN  /\ Fragmented(ph) /\ Fragmented(q) /\ LastSeg(ph) = FirstSeg(q)
           /\ FirstChar(q) > LastChar(ph) + 1
           /\ At(segments, LastSeg(ph)) # At(orig, LastSeg(ph))

C28_RibbonPreserved == pc = "healed" => Ribbon(healed) = Ribbon(xml)

(***************************************************************************)
(* C29.  Boundary ordering: in every pass of the loop of replaceSections   *)
(* openBound.start <= rawOpenStart < rawOpenEnd <= openBound.end           *)
(* <= closeBound.start <= rawCloseStart < rawCloseEnd <= closeBound.end,   *)
(* and before, the expanded open marker, inner, the expanded close marker  *)
(* and after, in this order, are the string of the pass.                   *)
(***************************************************************************)
InPass == pc = "running" /\ Top.mode = "scan" /\ ~Exits(Top)

Ordered(b) ==
    /\ b.openBound.start <= b.rawOpenStart
    /\ b.rawOpenStart < b.rawOpenEnd
    /\ b.rawOpenEnd <= b.openBound.end
    /\ b.openBound.end <= b.closeBound.start
    /\ b.closeBound.start <= b.rawCloseStart
    /\ b.rawCloseStart < b.rawCloseEnd
    /\ b.rawCloseEnd <= b.closeBound.end

Covers(f) ==
    LET b == Bounds(f)
    IN  Slices(f).before \o Slice(f.result, b.openBound.start, b.openBound.end)
          \o Slices(f).inner \o Slice(f.result, b.closeBound.start, b.closeBound.end)
          \o Slices(f).after = f.result

C29_BoundaryOrdering == InPass => Ordered(Bounds(Top)) /\ Covers(Top)

\* the same, for texts in which > only ends a tag and no marker stands in a tag
C29_WellFormedOrdering ==
    InPass /\ (\A k \in DOMAIN parts.pieces : parts.pieces[k] \notin {<<">">>, <<"<", "p", " ">>})
        => Ordered(Bounds(Top)) /\ Covers(Top)

(***************************************************************************)
(* C30.  Data is never read as template: a value that holds the text of a  *)
(* marker is put into the output as it is, escaped, whether its marker     *)
(* stands alone, in a conditional or in a loop, and binding the name that  *)
(* the value spells does not change the output.                            *)
(***************************************************************************)
SpellsMarker(v) == PLACEHOLDER_RE(v, 0) = Len(v) /\ Len(v) > 0

\* the data with the name the value spells bound to a text
Bound(d, v) == (Slice(v, 1, Len(v) - 1) :> Str(<<"w">>)) @@ d

C30_DataNotTemplate ==
    pc = "rendered" /\ SpellsMarker(parts.value) =>
        /\ out = parts.pre \o Escaped(parts.value) \o parts.post
        /\ out = replaceAll(xml, Bound(data, parts.value))

\* the same, for a marker that stands in no section
C30_PlainNotTemplate ==
    pc = "rendered" /\ SpellsMarker(parts.value) /\ parts.shape = "plain" =>
        /\ out = parts.pre \o Escaped(parts.value) \o parts.post
        /\ out = replaceAll(xml, Bound(data, parts.value))

====
